---- MODULE Spec2Model ----
(***************************************************************************)
(* A model of the SemanticTest pipeline engine (src/core/Pipeline.js with  *)
(* DataBus, Context, Block and the path utilities).                        *)
(*                                                                         *)
(* JavaScript values are tagged records; strings are sequences of          *)
(* one-character strings so that the code's string operations (split,      *)
(* includes, startsWith, the placeholder regular expressions, message      *)
(* concatenation) are computed and not assumed.  Wall-clock readings       *)
(* (Date.now(): timestamp, duration) are left out of every record.         *)
(***************************************************************************)
EXTENDS Integers, Sequences, FiniteSets, TLC

(***************************************************************************)
(* Bounds of the model.                                                    *)
(***************************************************************************)
MaxBlocks == 3
MaxCalls == 2
MaxOccurrences == 2

(***************************************************************************)
(* JavaScript values.                                                      *)
(***************************************************************************)
Undefined == [t |-> "undefined"]
Null == [t |-> "null"]
Bool(b) == [t |-> "boolean", b |-> b]
Num(n) == [t |-> "number", n |-> n]
\* The number n + 0.5, for n >= 0
Half(n) == [t |-> "number", n |-> n, half |-> TRUE]
IsWhole(v) == "half" \notin DOMAIN v
Str(s) == [t |-> "string", s |-> s]
Obj(o) == [t |-> "object", o |-> o]
Arr(a) == [t |-> "array", a |-> a]
\* An array that was given properties that are not indices
ArrProps(a, o) == [t |-> "array", a |-> a, o |-> o]
Err(m) == [t |-> "error", message |-> m]

EmptyObj == Obj(<<>>)

\* JavaScript truthiness (if (x), x || y, !x).
Truthy(v) ==
  CASE v.t = "undefined" -> FALSE
    [] v.t = "null" -> FALSE
    [] v.t = "boolean" -> v.b
    [] v.t = "number" -> v.n # 0 \/ ~IsWhole(v)
    [] v.t = "string" -> v.s # <<>>
    [] OTHER -> TRUE

\* v == null
IsNullish(v) == v.t \in {"undefined", "null"}

\* typeof v === 'object' (null and arrays included)
TypeofObject(v) == v.t \in {"object", "array", "null", "error"}

(***************************************************************************)
(* Strings.                                                                *)
(***************************************************************************)
Digits == <<"0", "1", "2", "3", "4", "5", "6", "7", "8", "9">>

IsDigit(c) == \E k \in 1..10 : Digits[k] = c

DigitVal(c) == (CHOOSE k \in 1..10 : Digits[k] = c) - 1

RECURSIVE NatToStr(_)
NatToStr(n) == IF n < 10 THEN <<Digits[n + 1]>> ELSE NatToStr(n \div 10) \o <<Digits[(n % 10) + 1]>>

NumToStr(n) == IF n < 0 THEN <<"-">> \o NatToStr(0 - n) ELSE NatToStr(n)

RECURSIVE ParseDigits(_)
\* parseInt(s, 10) of a string of digits
ParseDigits(s) == IF s = <<>> THEN 0 ELSE 10 * ParseDigits(SubSeq(s, 1, Len(s) - 1)) + DigitVal(s[Len(s)])

AllDigits(s) == s # <<>> /\ \A k \in 1..Len(s) : IsDigit(s[k])

\* s.startsWith(p)
StartsWith(s, p) == Len(p) <= Len(s) /\ SubSeq(s, 1, Len(p)) = p

\* s.includes(p)
Includes(s, p) == \E k \in 1..(Len(s) - Len(p) + 1) : SubSeq(s, k, k + Len(p) - 1) = p

\* s.substring(n)
Substring(s, n) == SubSeq(s, n + 1, Len(s))

RECURSIVE Split(_, _)
\* s.split(c) for a one-character separator c
Split(s, c) ==
  IF \A k \in 1..Len(s) : s[k] # c THEN <<s>>
  ELSE LET p == CHOOSE k \in 1..Len(s) : s[k] = c /\ \A j \in 1..(k - 1) : s[j] # c
       IN <<SubSeq(s, 1, p - 1)>> \o Split(SubSeq(s, p + 1, Len(s)), c)

RECURSIVE Join(_, _)
\* parts.join(sep)
Join(parts, sep) ==
  IF parts = <<>> THEN <<>>
  ELSE IF Len(parts) = 1 THEN parts[1]
  ELSE parts[1] \o sep \o Join(Tail(parts), sep)

RECURSIVE ToStr(_)
\* String(v), as applied by template literals and String.prototype.replace
ToStr(v) ==
  CASE v.t = "string" -> v.s
    [] v.t = "number" -> NumToStr(v.n) \o (IF IsWhole(v) THEN <<>> ELSE <<".", "5">>)
    [] v.t = "boolean" -> IF v.b THEN <<"t", "r", "u", "e">> ELSE <<"f", "a", "l", "s", "e">>
    [] v.t = "null" -> <<"n", "u", "l", "l">>
    [] v.t = "undefined" -> <<"u", "n", "d", "e", "f", "i", "n", "e", "d">>
    [] v.t = "error" -> <<"E", "r", "r", "o", "r", ":", " ">> \o v.message
    [] v.t = "array" ->
         IF v.a = <<>> THEN <<>>
         ELSE IF Len(v.a) = 1 THEN (IF IsNullish(v.a[1]) THEN <<>> ELSE ToStr(v.a[1]))
         ELSE (IF IsNullish(v.a[1]) THEN <<>> ELSE ToStr(v.a[1])) \o <<",">> \o ToStr([t |-> "array", a |-> Tail(v.a)])
    [] OTHER -> <<"[", "o", "b", "j", "e", "c", "t", " ", "O", "b", "j", "e", "c", "t", "]">>

(***************************************************************************)
(* Property names and slot names used by the engine.                       *)
(***************************************************************************)
k_input == <<"i", "n", "p", "u", "t">>
k_output == <<"o", "u", "t", "p", "u", "t">>
k_config == <<"c", "o", "n", "f", "i", "g">>
k_id == <<"i", "d">>
k_from == <<"f", "r", "o", "m">>
k_as == <<"a", "s">>
k_body == <<"b", "o", "d", "y">>
k_error == <<"e", "r", "r", "o", "r">>
k_message == <<"m", "e", "s", "s", "a", "g", "e">>
k_length == <<"l", "e", "n", "g", "t", "h">>
k_success == <<"s", "u", "c", "c", "e", "s", "s">>
k_terminate == <<"_", "t", "e", "r", "m", "i", "n", "a", "t", "e">>
k_loopTo == <<"_", "l", "o", "o", "p", "T", "o">>
k_maxLoops == <<"_", "m", "a", "x", "L", "o", "o", "p", "s">>
k_continueOnError == <<"c", "o", "n", "t", "i", "n", "u", "e", "O", "n", "E", "r", "r", "o", "r">>
slot_error == <<"_", "e", "r", "r", "o", "r">>
slot_meta == <<"_", "m", "e", "t", "a", ".">>
key_loopCount == <<"_", "l", "o", "o", "p", "C", "o", "u", "n", "t", ":">>

(***************************************************************************)
(* Objects.                                                                *)
(***************************************************************************)
\* A Map / object with key k set to v (insert or overwrite).
Put(f, k, v) == [x \in (DOMAIN f) \cup {k} |-> IF x = k THEN v ELSE f[x]]

\* A one-key object literal { [k]: v }
Obj1(k, v) == Obj(Put(<<>>, k, v))

\* o[k] for a value o that is not null or undefined
GetProp(v, k) ==
  CASE v.t = "object" -> IF k \in DOMAIN v.o THEN v.o[k] ELSE Undefined
    [] v.t = "array" ->
         IF AllDigits(k) /\ NatToStr(ParseDigits(k)) = k /\ ParseDigits(k) < Len(v.a)
         THEN v.a[ParseDigits(k) + 1]
         ELSE IF k = k_length THEN Num(Len(v.a))
         ELSE IF "o" \in DOMAIN v /\ k \in DOMAIN v.o THEN v.o[k]
         ELSE Undefined
    [] v.t = "string" ->
         IF AllDigits(k) /\ NatToStr(ParseDigits(k)) = k /\ ParseDigits(k) < Len(v.s)
         THEN Str(<<v.s[ParseDigits(k) + 1]>>)
         ELSE IF k = k_length THEN Num(Len(v.s)) ELSE Undefined
    [] v.t = "error" -> IF k = k_message THEN Str(v.message) ELSE Undefined
    [] OTHER -> Undefined

\* k in o, for an object o
HasKey(v, k) ==
  CASE v.t = "object" -> k \in DOMAIN v.o
    [] v.t = "array" -> AllDigits(k) /\ NatToStr(ParseDigits(k)) = k /\ ParseDigits(k) < Len(v.a)
    [] v.t = "error" -> k = k_message
    [] OTHER -> FALSE

\* The own enumerable properties copied by { ...v }
Spread(v) ==
  CASE v.t = "object" -> v.o
    [] v.t = "array" -> [k \in {NatToStr(n) : n \in 0..(Len(v.a) - 1)} |-> v.a[ParseDigits(k) + 1]]
    [] v.t = "string" -> [k \in {NatToStr(n) : n \in 0..(Len(v.s) - 1)} |-> Str(<<v.s[ParseDigits(k) + 1]>>)]
    [] OTHER -> <<>>

\* { ...a, ...b }
Merge(a, b) == [k \in (DOMAIN a) \cup (DOMAIN b) |-> IF k \in DOMAIN b THEN b[k] ELSE a[k]]

(***************************************************************************)
(* Path utilities (getPath).                                               *)
(***************************************************************************)
\* part.match(/^(.+)\[(\d+)\]$/): the position of the "[" that opens the index
ArrayMatchPos(part) ==
  IF Len(part) >= 4 /\ part[Len(part)] = "]"
     /\ \E p \in 2..(Len(part) - 2) : part[p] = "[" /\ AllDigits(SubSeq(part, p + 1, Len(part) - 1))
  THEN CHOOSE p \in 2..(Len(part) - 2) : part[p] = "[" /\ AllDigits(SubSeq(part, p + 1, Len(part) - 1))
  ELSE 0

RECURSIVE WalkPath(_, _)
WalkPath(current, parts) ==
  LET Indexed(part, p, inner) ==
        IF IsNullish(inner) THEN Undefined
        ELSE WalkPath(GetProp(inner, NatToStr(ParseDigits(SubSeq(part, p + 1, Len(part) - 1)))),
                      Tail(parts))
      Walk(part, p) ==
        IF p > 0 THEN Indexed(part, p, GetProp(current, SubSeq(part, 1, p - 1)))
        ELSE WalkPath(GetProp(current, part), Tail(parts))
  IN IF parts = <<>> THEN current
     ELSE IF IsNullish(current) THEN Undefined
     ELSE Walk(Head(parts), ArrayMatchPos(Head(parts)))

getPath(obj, path) == IF path = <<>> THEN obj ELSE WalkPath(obj, Split(path, "."))

(***************************************************************************)
(* DataBus (a Map of slots) and Context (a Map of keys).                   *)
(***************************************************************************)
SlotsGet(slots, name) == IF name \in DOMAIN slots THEN slots[name] ELSE Undefined

\* DataBus.get(name) for a string name
DataBus_get(slots, name) ==
  LET Nested(parts) == getPath(SlotsGet(slots, parts[1]), Join(Tail(parts), <<".">>))
  IN IF Includes(name, <<".">>) /\ name \notin DOMAIN slots THEN Nested(Split(name, "."))
     ELSE SlotsGet(slots, name)

\* DataBus.has(name)
DataBus_has(slots, name) ==
  \/ name \in DOMAIN slots
  \/ (name # <<>> /\ Includes(name, <<".">>) /\ DataBus_get(slots, name) # Undefined)

\* DataBus.toObject()
DataBus_toObject(slots) == Obj(slots)

\* Context.get(key)
Context_get(data, key) == IF key \in DOMAIN data THEN data[key] ELSE Undefined

\* Context.merge(obj) for a plain object (or a falsy argument)
Context_merge(data, obj) == IF ~Truthy(obj) THEN data ELSE Merge(data, Spread(obj))

\* Context.toObject()
Context_toObject(data) == Obj(data)

(***************************************************************************)
(* The pipeline's own state, threaded through the methods of Pipeline:     *)
(* m.dataBus (DataBus.slots), m.context (Context.data) and                 *)
(* m.executionSummary.                                                     *)
(***************************************************************************)
DataBusSet(m, name, value) == [m EXCEPT !.dataBus = Put(@, name, value)]

ContextSet(m, key, value) == [m EXCEPT !.context = Put(@, key, value)]

(***************************************************************************)
(* Pipeline.resolveValue and Pipeline.deepResolve.                         *)
(***************************************************************************)
s_env == <<"e", "n", "v", ".">>
s_open == <<"$", "{">>

\* value.match(/^\$\{([^}]+)\}$/)
WholePlaceholder(s) ==
  /\ Len(s) >= 4
  /\ StartsWith(s, s_open)
  /\ s[Len(s)] = "}"
  /\ \A k \in 3..(Len(s) - 1) : s[k] # "}"

\* The end of the match of /\$\{([^}]+)\}/ that starts at the first
\* character of s, 0 if there is none.
PlaceholderEnd(s) ==
  IF StartsWith(s, s_open) /\ (\E e \in 4..Len(s) : s[e] = "}") /\ s[3] # "}"
  THEN CHOOSE e \in 4..Len(s) : s[e] = "}" /\ \A j \in 3..(e - 1) : s[j] # "}"
  ELSE 0

\* The replacer callback consulting the data bus before the context
Replacer_BusFirst(m, fullMatch, innerPath) ==
  LET OrMatch(v) == IF v # Undefined THEN ToStr(v) ELSE fullMatch
      Either(contextVal, v) == IF v # Undefined THEN ToStr(v) ELSE OrMatch(contextVal)
  IN IF StartsWith(innerPath, s_env) THEN OrMatch(Context_get(m.context, Substring(innerPath, 4)))
     ELSE Either(Context_get(m.context, innerPath), DataBus_get(m.dataBus, innerPath))

\* The replacer callback of resolveValue (Pipeline.js 382-394).
Replacer(m, fullMatch, innerPath) ==
  LET OrMatch(v) == IF v # Undefined THEN ToStr(v) ELSE fullMatch
      Either(contextVal, v) == IF contextVal # Undefined THEN ToStr(contextVal) ELSE OrMatch(v)
  IN IF StartsWith(innerPath, s_env) THEN OrMatch(Context_get(m.context, Substring(innerPath, 4)))
     ELSE Either(Context_get(m.context, innerPath), DataBus_get(m.dataBus, innerPath))

RECURSIVE ReplaceAll(_, _)
\* value.replace(/\$\{([^}]+)\}/g, replacer)
ReplaceAll(m, s) ==
  LET From(e) ==
        IF e > 0
        THEN Replacer(m, SubSeq(s, 1, e), SubSeq(s, 3, e - 1)) \o ReplaceAll(m, SubSeq(s, e + 1, Len(s)))
        ELSE <<s[1]>> \o ReplaceAll(m, Tail(s))
  IN IF s = <<>> THEN <<>> ELSE From(PlaceholderEnd(s))

\* The whole-placeholder branch giving back the placeholder when nothing is found
ResolvePlaceholder_Literal(m, path) ==
  LET OrSelf(v) == IF v # Undefined THEN v ELSE Str(s_open \o path \o <<"}">>)
      OrBus(contextValue) ==
        IF contextValue # Undefined THEN contextValue ELSE OrSelf(DataBus_get(m.dataBus, path))
  IN IF StartsWith(path, s_env) THEN OrSelf(Context_get(m.context, Substring(path, 4)))
     ELSE OrBus(Context_get(m.context, path))

\* The whole-placeholder branch of resolveValue (Pipeline.js 356-378).
ResolvePlaceholder(m, path) ==
  LET OrBus(contextValue) ==
        IF contextValue # Undefined THEN contextValue ELSE DataBus_get(m.dataBus, path)
  IN IF StartsWith(path, s_env) THEN Context_get(m.context, Substring(path, 4))
     ELSE OrBus(Context_get(m.context, path))

resolveValue(m, value) ==
  LET OrValue(slotValue) == IF slotValue # Undefined THEN slotValue ELSE value
  IN IF value.t # "string" THEN value
     ELSE IF WholePlaceholder(value.s) THEN ResolvePlaceholder(m, SubSeq(value.s, 3, Len(value.s) - 1))
     ELSE IF Includes(value.s, s_open) THEN Str(ReplaceAll(m, value.s))
     ELSE OrValue(DataBus_get(m.dataBus, value.s))

RECURSIVE deepResolve(_, _)
deepResolve(m, value) ==
  CASE value.t = "string" -> resolveValue(m, value)
    [] value.t = "array" -> Arr([k \in 1..Len(value.a) |-> deepResolve(m, value.a[k])])
    [] value.t = "object" -> Obj([k \in DOMAIN value.o |-> deepResolve(m, value.o[k])])
    [] OTHER -> value

(***************************************************************************)
(* Blocks.  A block is [kind, config, id]; kind names its class.           *)
(***************************************************************************)
k_value == <<"v", "a", "l", "u", "e">>
k_result == <<"r", "e", "s", "u", "l", "t">>
k_data == <<"d", "a", "t", "a">>
k_parsed == <<"p", "a", "r", "s", "e", "d">>
k_raw == <<"r", "a", "w">>
k_input1 == <<"i", "n", "p", "u", "t", "1">>
k_input2 == <<"i", "n", "p", "u", "t", "2">>
k_input3 == <<"i", "n", "p", "u", "t", "3">>
k_output1 == <<"o", "u", "t", "p", "u", "t", "1">>
k_output2 == <<"o", "u", "t", "p", "u", "t", "2">>
s_default == <<"d", "e", "f", "a", "u", "l", "t">>
k_block == <<"b", "l", "o", "c", "k">>
k_target == <<"t", "a", "r", "g", "e", "t">>
k_maxIterations == <<"m", "a", "x", "I", "t", "e", "r", "a", "t", "i", "o", "n", "s">>
k_condition == <<"c", "o", "n", "d", "i", "t", "i", "o", "n">>
k_shouldLoop == <<"_", "s", "h", "o", "u", "l", "d", "L", "o", "o", "p">>
s_test == <<"t", "e", "s", "t">>
s_TestError == <<"T", "e", "s", "t", " ", "e", "r", "r", "o", "r">>
s_TypeError == <<"T", "y", "p", "e", "E", "r", "r", "o", "r">>
s_JsonError == <<"J", "S", "O", "N", " ", "p", "a", "r", "s", "e", " ", "e", "r", "r", "o", "r", ":", " ">>
s_Unexpected == <<"U", "n", "e", "x", "p", "e", "c", "t", "e", "d", " ", "t", "o", "k", "e", "n">>
s_BlockQ == <<"B", "l", "o", "c", "k", " ", "'">>
s_missing == <<"'", " ", "m", "i", "s", "s", "i", "n", "g", " ", "r", "e", "q", "u", "i", "r", "e", "d", " ",
               "i", "n", "p", "u", "t", "s", ":", " ">>

MAX_LOOP_ITERATIONS == 10

\* constructor.name of each block class
ClassName(kind) ==
  CASE kind = "TestBlock" -> <<"T", "e", "s", "t", "B", "l", "o", "c", "k">>
    [] kind = "ErrorBlock" -> <<"E", "r", "r", "o", "r", "B", "l", "o", "c", "k">>
    [] kind = "JsonParser" -> <<"J", "s", "o", "n", "P", "a", "r", "s", "e", "r">>
    [] kind = "TestBlockRequired" -> <<"T", "e", "s", "t", "B", "l", "o", "c", "k">>
    [] kind = "Loop" -> <<"L", "o", "o", "p">>
    [] OTHER -> <<"M", "o", "c", "k", "D", "a", "t", "a">>

\* new BlockClass(config): this.config = config; this.id = config.id || this.constructor.name
Block(kind, config) ==
  [kind |-> kind, config |-> config,
   id |-> IF Truthy(GetProp(config, k_id)) THEN ToStr(GetProp(config, k_id)) ELSE ClassName(kind)]

\* static get inputs().required of each block class
Required(kind) ==
  CASE kind = "JsonParser" -> <<k_body>>
    [] kind = "TestBlockRequired" -> <<k_input1, k_input2>>
    [] OTHER -> <<>>

\* a + b
Plus(a, b) == IF a.t = "number" /\ b.t = "number" THEN Num(a.n + b.n) ELSE Str(ToStr(a) \o ToStr(b))

\* validateInputs reporting only the first missing name
validateInputs_FirstOnly(block, inputs) ==
  LET required == Required(block.kind)
      IsMissing(req) ==
        IF TypeofObject(inputs) /\ inputs # Null
        THEN ~HasKey(inputs, req) \/ GetProp(inputs, req) = Undefined
        ELSE TRUE
      missing == SelectSeq(required, IsMissing)
  IN IF Len(missing) > 0
     THEN [threw |-> TRUE, value |-> Err(s_BlockQ \o block.id \o s_missing \o missing[1])]
     ELSE [threw |-> FALSE, value |-> Undefined]

\* Block.validateInputs: the thrown Error, or no throw
validateInputs(block, inputs) ==
  LET required == Required(block.kind)
      IsMissing(req) ==
        IF TypeofObject(inputs) /\ inputs # Null
        THEN ~HasKey(inputs, req) \/ GetProp(inputs, req) = Undefined
        ELSE TRUE
      missing == SelectSeq(required, IsMissing)
  IN IF Len(missing) > 0
     THEN [threw |-> TRUE,
           value |-> Err(s_BlockQ \o block.id \o s_missing \o Join(missing, <<",", " ">>))]
     ELSE [threw |-> FALSE, value |-> Undefined]

\* JSON.parse(text) on the numerals and literals of JSON; anything else is
\* a SyntaxError.
JsonParse(body) ==
  LET text == ToStr(body)
  IN IF AllDigits(text) /\ NatToStr(ParseDigits(text)) = text
     THEN [threw |-> FALSE, value |-> Num(ParseDigits(text))]
     ELSE IF text = ToStr(Null) THEN [threw |-> FALSE, value |-> Null]
     ELSE IF text = ToStr(Bool(TRUE)) THEN [threw |-> FALSE, value |-> Bool(TRUE)]
     ELSE IF text = ToStr(Bool(FALSE)) THEN [threw |-> FALSE, value |-> Bool(FALSE)]
     ELSE [threw |-> TRUE, value |-> Err(s_Unexpected)]

(***************************************************************************)
(* Conditions (src/utils/conditions.js).                                   *)
(***************************************************************************)
op_equals == <<"e", "q", "u", "a", "l", "s">>
op_notEquals == <<"n", "o", "t", "E", "q", "u", "a", "l", "s">>
op_gt == <<"g", "t">>
op_gte == <<"g", "t", "e">>
op_lt == <<"l", "t">>
op_lte == <<"l", "t", "e">>
op_contains == <<"c", "o", "n", "t", "a", "i", "n", "s">>
op_notContains == <<"n", "o", "t", "C", "o", "n", "t", "a", "i", "n", "s">>
op_minLength == <<"m", "i", "n", "L", "e", "n", "g", "t", "h">>
op_maxLength == <<"m", "a", "x", "L", "e", "n", "g", "t", "h">>
op_matches == <<"m", "a", "t", "c", "h", "e", "s">>
op_notMatches == <<"n", "o", "t", "M", "a", "t", "c", "h", "e", "s">>
op_isNull == <<"i", "s", "N", "u", "l", "l">>
op_isNotNull == <<"i", "s", "N", "o", "t", "N", "u", "l", "l">>
op_isDefined == <<"i", "s", "D", "e", "f", "i", "n", "e", "d">>
op_isUndefined == <<"i", "s", "U", "n", "d", "e", "f", "i", "n", "e", "d">>
op_isTrue == <<"i", "s", "T", "r", "u", "e">>
op_isFalse == <<"i", "s", "F", "a", "l", "s", "e">>
op_isEmpty == <<"i", "s", "E", "m", "p", "t", "y">>
op_isNotEmpty == <<"i", "s", "N", "o", "t", "E", "m", "p", "t", "y">>

k_path == <<"p", "a", "t", "h">>
k_operator == <<"o", "p", "e", "r", "a", "t", "o", "r">>
s_ConditionRequired == <<"C", "o", "n", "d", "i", "t", "i", "o", "n", " ", "i", "s", " ", "r", "e", "q", "u", "i", "r", "e", "d">>
s_PathRequired == <<"C", "o", "n", "d", "i", "t", "i", "o", "n", " ", "p", "a", "t", "h", " ", "i", "s", " ", "r", "e", "q", "u", "i", "r", "e", "d">>
s_OperatorRequired == <<"C", "o", "n", "d", "i", "t", "i", "o", "n", " ", "o", "p", "e", "r", "a", "t", "o", "r", " ", "i", "s", " ", "r", "e", "q", "u", "i", "r", "e", "d">>
s_OperatorQ == <<"O", "p", "e", "r", "a", "t", "o", "r", " ", "'">>
s_requiresValue == <<"'", " ", "r", "e", "q", "u", "i", "r", "e", "s", " ", "a", " ", "v", "a", "l", "u", "e">>
s_UnknownOperator == <<"U", "n", "k", "n", "o", "w", "n", " ", "o", "p", "e", "r", "a", "t", "o", "r", ":", " ">>

\* The characters of the strings compared, in the order of their code units.
Ascii ==
  <<" ", ",", "0", "1", "2", "3", "4", "5", "6", "7", "8", "9",
    "A", "B", "C", "D", "E", "F", "G", "H", "I", "J", "K", "L", "M", "N", "O", "P", "Q", "R", "S", "T", "U", "V", "W", "X", "Y", "Z", "[", "]",
    "a", "b", "c", "d", "e", "f", "g", "h", "i", "j", "k", "l", "m", "n", "o", "p", "q", "r", "s", "t", "u", "v", "w", "x", "y", "z">>

CharCode(c) == CHOOSE k \in 1..Len(Ascii) : Ascii[k] = c

RECURSIVE StrLess(_, _)
\* s < t for strings: the order of the code units at the first difference
StrLess(s, t) ==
  IF t = <<>> THEN FALSE
  ELSE IF s = <<>> THEN TRUE
  ELSE IF s[1] = t[1] THEN StrLess(Tail(s), Tail(t))
  ELSE CharCode(s[1]) < CharCode(t[1])

\* ToPrimitive: an array or object becomes its string
ToPrimitive(v) == IF v.t \in {"array", "object", "error"} THEN Str(ToStr(v)) ELSE v

\* ToNumber of a primitive, as twice the number; the strings converted are
\* the empty string and strings of digits, every other string gives NaN
ToNumber(p) ==
  CASE p.t = "number" -> [nan |-> FALSE, twice |-> 2 * p.n + (IF IsWhole(p) THEN 0 ELSE 1)]
    [] p.t = "boolean" -> [nan |-> FALSE, twice |-> IF p.b THEN 2 ELSE 0]
    [] p.t = "null" -> [nan |-> FALSE, twice |-> 0]
    [] p.t = "string" ->
         IF p.s = <<>> THEN [nan |-> FALSE, twice |-> 0]
         ELSE IF AllDigits(p.s) THEN [nan |-> FALSE, twice |-> 2 * ParseDigits(p.s)]
         ELSE [nan |-> TRUE, twice |-> 0]
    [] OTHER -> [nan |-> TRUE, twice |-> 0]

\* a < b: "true", "false", or "undefined" when a number is NaN
Less(a, b) ==
  LET Numbers(na, nb) ==
        IF na.nan \/ nb.nan THEN "undefined" ELSE IF na.twice < nb.twice THEN "true" ELSE "false"
      Primitives(pa, pb) ==
        IF pa.t = "string" /\ pb.t = "string" THEN (IF StrLess(pa.s, pb.s) THEN "true" ELSE "false")
        ELSE Numbers(ToNumber(pa), ToNumber(pb))
  IN Primitives(ToPrimitive(a), ToPrimitive(b))

\* a === b: an array or object is equal only to itself, and the actual and
\* the expected value are never the same object
StrictEquals(a, b) == a.t \notin {"array", "object", "error"} /\ a = b

HasLength(v) == v.t \in {"string", "array"}

LengthOf(v) == IF v.t = "string" THEN Len(v.s) ELSE Len(v.a)

\* new RegExp(expected).test(actual), for an expected value whose string
\* has no character that is special in a pattern
RegExpTest(expected, actual) == Includes(actual.s, ToStr(expected))

\* evaluateOperator(actual, operator, expected)
evaluateOperator(actual, operator, expected) ==
  LET Returns(b) == [threw |-> FALSE, value |-> Bool(b)]
      InArray(item) ==
        IF item.t = "string" /\ expected.t = "string" THEN Includes(item.s, expected.s)
        ELSE StrictEquals(item, expected)
  IN CASE operator = op_equals -> Returns(StrictEquals(actual, expected))
       [] operator = op_notEquals -> Returns(~StrictEquals(actual, expected))
       [] operator = op_gt -> Returns(Less(expected, actual) = "true")
       [] operator = op_gte -> Returns(Less(actual, expected) = "false")
       [] operator = op_lt -> Returns(Less(actual, expected) = "true")
       [] operator = op_lte -> Returns(Less(expected, actual) = "false")
       [] operator = op_contains ->
            IF actual.t = "string" THEN Returns(Includes(actual.s, ToStr(expected)))
            ELSE IF actual.t = "array" THEN Returns(\E k \in 1..Len(actual.a) : InArray(actual.a[k]))
            ELSE Returns(FALSE)
       [] operator = op_notContains ->
            IF actual.t = "string" THEN Returns(~Includes(actual.s, ToStr(expected)))
            ELSE IF actual.t = "array"
            THEN Returns(~\E k \in 1..Len(actual.a) : StrictEquals(actual.a[k], expected))
            ELSE Returns(TRUE)
       [] operator = op_minLength ->
            Returns(HasLength(actual) /\ Less(Num(LengthOf(actual)), expected) = "false")
       [] operator = op_maxLength ->
            Returns(HasLength(actual) /\ Less(expected, Num(LengthOf(actual))) = "false")
       [] operator = op_matches -> Returns(actual.t = "string" /\ RegExpTest(expected, actual))
       [] operator = op_notMatches -> Returns(~(actual.t = "string" /\ RegExpTest(expected, actual)))
       [] operator = op_isNull -> Returns(actual = Null)
       [] operator = op_isNotNull -> Returns(actual # Null)
       [] operator = op_isDefined -> Returns(actual # Undefined)
       [] operator = op_isUndefined -> Returns(actual = Undefined)
       [] operator = op_isTrue -> Returns(actual = Bool(TRUE))
       [] operator = op_isFalse -> Returns(actual = Bool(FALSE))
       [] operator = op_isEmpty ->
            IF HasLength(actual) THEN Returns(LengthOf(actual) = 0)
            ELSE Returns(actual.t = "error" \/ (actual.t = "object" /\ DOMAIN actual.o = {}))
       [] operator = op_isNotEmpty ->
            IF HasLength(actual) THEN Returns(LengthOf(actual) > 0)
            ELSE Returns(actual.t = "object" /\ DOMAIN actual.o # {})
       [] OTHER -> [threw |-> TRUE, value |-> Err(s_UnknownOperator \o operator)]

\* const noValueOperators = [...]
noValueOperators ==
  {op_isNull, op_isNotNull, op_isDefined, op_isUndefined, op_isTrue, op_isFalse, op_isEmpty,
   op_isNotEmpty}

\* evaluateCondition refusing every falsy value
evaluateCondition_Falsy(data, condition) ==
  LET Throws(message) == [threw |-> TRUE, value |-> Err(message)]
      Evaluate(path, operator, value) ==
        IF ~Truthy(path) THEN Throws(s_PathRequired)
        ELSE IF ~Truthy(operator) THEN Throws(s_OperatorRequired)
        ELSE IF path.t # "string" THEN Throws(s_TypeError)
        ELSE IF operator.t # "string"
        THEN Throws(IF value = Undefined THEN s_OperatorQ \o ToStr(operator) \o s_requiresValue
                    ELSE s_UnknownOperator \o ToStr(operator))
        ELSE IF operator.s \notin noValueOperators /\ ~Truthy(value)
        THEN Throws(s_OperatorQ \o operator.s \o s_requiresValue)
        ELSE evaluateOperator(getPath(data, path.s), operator.s, value)
  IN IF ~Truthy(condition) THEN Throws(s_ConditionRequired)
     ELSE Evaluate(GetProp(condition, k_path), GetProp(condition, k_operator),
                   GetProp(condition, k_value))

\* evaluateCondition(data, condition)
evaluateCondition(data, condition) ==
  LET Throws(message) == [threw |-> TRUE, value |-> Err(message)]
      Evaluate(path, operator, value) ==
        IF ~Truthy(path) THEN Throws(s_PathRequired)
        ELSE IF ~Truthy(operator) THEN Throws(s_OperatorRequired)
        ELSE IF path.t # "string" THEN Throws(s_TypeError)
        ELSE IF operator.t # "string"
        THEN Throws(IF value = Undefined THEN s_OperatorQ \o ToStr(operator) \o s_requiresValue
                    ELSE s_UnknownOperator \o ToStr(operator))
        ELSE IF operator.s \notin noValueOperators /\ value = Undefined
        THEN Throws(s_OperatorQ \o operator.s \o s_requiresValue)
        ELSE evaluateOperator(getPath(data, path.s), operator.s, value)
  IN IF ~Truthy(condition) THEN Throws(s_ConditionRequired)
     ELSE Evaluate(GetProp(condition, k_path), GetProp(condition, k_operator),
                   GetProp(condition, k_value))

\* process(inputs, context) of each block class.  A Loop block without a
\* condition has shouldLoop true; with one, evaluateCondition decides.
Process(block, inputs) ==
  LET Parsed(body, parsed) ==
        IF parsed.threw
        THEN Obj(Put(Put(<<>>, k_error, Str(s_JsonError \o parsed.value.message)), k_raw, body))
        ELSE Obj1(k_parsed, parsed.value)
      Or(a, b) == IF Truthy(a) THEN a ELSE b
      Data(inner) == IF IsNullish(inner) THEN Undefined ELSE GetProp(inner, k_data)
      OrDefault(maxIterations) ==
        IF maxIterations = Undefined THEN Num(MAX_LOOP_ITERATIONS) ELSE maxIterations
      Signal(target, maxIterations) ==
        Obj(Put(Put(Put(Spread(inputs), k_loopTo, target), k_maxLoops, maxIterations),
                k_shouldLoop, Bool(TRUE)))
      Decided(shouldLoop) ==
        IF shouldLoop.threw THEN shouldLoop
        ELSE IF Truthy(shouldLoop.value)
        THEN [threw |-> FALSE,
              value |-> Signal(GetProp(block.config, k_target),
                               OrDefault(GetProp(block.config, k_maxIterations)))]
        ELSE [threw |-> FALSE, value |-> Obj(Put(Spread(inputs), k_shouldLoop, Bool(FALSE)))]
      Looped(condition) ==
        IF Truthy(condition) THEN Decided(evaluateCondition(inputs, condition))
        ELSE Decided([threw |-> FALSE, value |-> Bool(TRUE)])
  IN CASE block.kind = "TestBlock" ->
            IF IsNullish(inputs) THEN [threw |-> TRUE, value |-> Err(s_TypeError)]
            ELSE [threw |-> FALSE, value |-> Obj1(k_result, Or(GetProp(inputs, k_value), Str(s_test)))]
       [] block.kind = "ErrorBlock" -> [threw |-> TRUE, value |-> Err(s_TestError)]
       [] block.kind = "TestBlockRequired" ->
            [threw |-> FALSE,
             value |-> Obj(Put(Put(<<>>, k_output1, Plus(GetProp(inputs, k_input1), GetProp(inputs, k_input2))),
                               k_output2, Or(GetProp(inputs, k_input3), Str(s_default))))]
       [] block.kind = "JsonParser" ->
            [threw |-> FALSE, value |-> Parsed(GetProp(inputs, k_body), JsonParse(GetProp(inputs, k_body)))]
       [] block.kind = "Loop" -> Looped(GetProp(block.config, k_condition))
       [] OTHER ->
            [threw |-> FALSE,
             value |-> Or(Data(GetProp(block.config, k_config)), Or(GetProp(block.config, k_data), EmptyObj))]

\* Block.execute(inputs, context): validateInputs, then process
BlockExecute(block, inputs) ==
  LET Then(v, p) ==
        IF v.threw THEN [threw |-> TRUE, value |-> v.value, processed |-> FALSE]
        ELSE [threw |-> p.threw, value |-> p.value, processed |-> TRUE]
  IN Then(validateInputs(block, inputs), Process(block, inputs))

\* measureTime(fn): { result } or { error }
measureTime(r) ==
  IF r.threw THEN [result |-> Undefined, error |-> r.value]
  ELSE [result |-> r.value, error |-> Undefined]

\* gatherInputs with the gathered inputs spread over the config record
gatherInputs_InputsWin(m, block) ==
  LET WithConfig(inputs, extra) ==
        IF Truthy(extra) /\ TypeofObject(extra) THEN Obj(Merge(Spread(extra), Spread(inputs)))
        ELSE inputs
      Named(value, as) == IF Truthy(as) THEN Obj1(ToStr(as), value) ELSE value
      From(from, as, extra) ==
        IF from.t # "string" THEN [threw |-> TRUE, value |-> Err(s_TypeError)]
        ELSE [threw |-> FALSE, value |-> WithConfig(Named(DataBus_get(m.dataBus, from.s), as), extra)]
      Gather(input, extra) ==
        IF Truthy(input) /\ input.t = "string"
        THEN [threw |-> FALSE, value |-> WithConfig(Obj1(k_body, resolveValue(m, input)), extra)]
        ELSE IF Truthy(input) /\ TypeofObject(input) /\ Truthy(GetProp(input, k_from))
        THEN From(GetProp(input, k_from), GetProp(input, k_as), extra)
        ELSE IF Truthy(input) /\ TypeofObject(input)
        THEN [threw |-> FALSE, value |-> WithConfig(deepResolve(m, input), extra)]
        ELSE [threw |-> FALSE, value |-> WithConfig(DataBus_toObject(m.dataBus), extra)]
  IN Gather(GetProp(block.config, k_input), GetProp(block.config, k_config))

(***************************************************************************)
(* Pipeline.gatherInputs and Pipeline.storeOutput.                         *)
(***************************************************************************)
gatherInputs(m, block) ==
  LET WithConfig(inputs, extra) ==
        IF Truthy(extra) /\ TypeofObject(extra) THEN Obj(Merge(Spread(inputs), Spread(extra)))
        ELSE inputs
      Named(value, as) == IF Truthy(as) THEN Obj1(ToStr(as), value) ELSE value
      From(from, as, extra) ==
        IF from.t # "string" THEN [threw |-> TRUE, value |-> Err(s_TypeError)]
        ELSE [threw |-> FALSE, value |-> WithConfig(Named(DataBus_get(m.dataBus, from.s), as), extra)]
      Gather(input, extra) ==
        IF Truthy(input) /\ input.t = "string"
        THEN [threw |-> FALSE, value |-> WithConfig(Obj1(k_body, resolveValue(m, input)), extra)]
        ELSE IF Truthy(input) /\ TypeofObject(input) /\ Truthy(GetProp(input, k_from))
        THEN From(GetProp(input, k_from), GetProp(input, k_as), extra)
        ELSE IF Truthy(input) /\ TypeofObject(input)
        THEN [threw |-> FALSE, value |-> WithConfig(deepResolve(m, input), extra)]
        ELSE [threw |-> FALSE, value |-> WithConfig(DataBus_toObject(m.dataBus), extra)]
  IN Gather(GetProp(block.config, k_input), GetProp(block.config, k_config))

RECURSIVE StoreMapped(_, _, _, _)
\* for (const [key, slot] of Object.entries(config.output)) ...
StoreMapped(m, mapping, keys, output) ==
  LET Store(key, value) ==
        StoreMapped(IF value # Undefined THEN DataBusSet(m, ToStr(mapping[key]), value) ELSE m,
                    mapping, keys \ {key}, output)
      Next1(key) == Store(key, GetProp(output, key))
  IN IF keys = {} THEN m ELSE Next1(CHOOSE k \in keys : TRUE)

\* storeOutput keeping what an earlier pass stored under the unit's own slot
storeOutput_KeepFirst(m, block, output) ==
  LET Under(out) ==
        IF Truthy(out) /\ out.t = "object" THEN StoreMapped(m, out.o, DOMAIN out.o, output)
        ELSE IF Truthy(out) THEN DataBusSet(m, ToStr(out), output)
        ELSE IF block.id \in DOMAIN m.dataBus THEN m
        ELSE DataBusSet(m, block.id, output)
  IN IF ~Truthy(output) THEN m ELSE Under(GetProp(block.config, k_output))

\* storeOutput writing the whole output under the block id as well
storeOutput_IdToo(m, block, output) ==
  LET Under(out) ==
        IF Truthy(out) /\ out.t = "object"
        THEN StoreMapped(DataBusSet(m, block.id, output), out.o, DOMAIN out.o, output)
        ELSE IF Truthy(out) THEN DataBusSet(m, ToStr(out), output)
        ELSE DataBusSet(m, block.id, output)
  IN IF ~Truthy(output) THEN m ELSE Under(GetProp(block.config, k_output))

storeOutput(m, block, output) ==
  LET Under(out) ==
        IF Truthy(out) /\ out.t = "object" THEN StoreMapped(m, out.o, DOMAIN out.o, output)
        ELSE IF Truthy(out) THEN DataBusSet(m, ToStr(out), output)
        ELSE DataBusSet(m, block.id, output)
  IN IF ~Truthy(output) THEN m ELSE Under(GetProp(block.config, k_output))

(***************************************************************************)
(* Pipeline: metadata, summary, error and success handling, flow control.  *)
(***************************************************************************)
\* storeBlockMetadata dropping the error text
storeBlockMetadata_NoError(m, blockId, success, error) ==
  DataBusSet(m, slot_meta \o blockId, Obj(Put(<<>>, k_success, Bool(success))))

storeBlockMetadata(m, blockId, success, error) ==
  LET base == Put(<<>>, k_success, Bool(success))
      metadata == IF Truthy(error) THEN Put(base, k_error, error) ELSE base
  IN DataBusSet(m, slot_meta \o blockId, Obj(metadata))

\* updateExecutionSummary leaving hasErrors as it is
updateExecutionSummary_NoFlag(m, success) ==
  IF success
  THEN [m EXCEPT !.executionSummary.executed = @ + 1, !.executionSummary.succeeded = @ + 1]
  ELSE [m EXCEPT !.executionSummary.executed = @ + 1, !.executionSummary.failed = @ + 1]

updateExecutionSummary(m, success) ==
  IF success
  THEN [m EXCEPT !.executionSummary.executed = @ + 1, !.executionSummary.succeeded = @ + 1]
  ELSE [m EXCEPT !.executionSummary.executed = @ + 1, !.executionSummary.failed = @ + 1,
                 !.executionSummary.hasErrors = TRUE]

PushBlockResult(m, entry) == [m EXCEPT !.executionSummary.blockResults = Append(@, entry)]

\* handleBlockError also putting the message into the unit's own slot
handleBlockError_OwnSlot(m, block, error, shouldThrow) ==
  LET Record(errorMessage) ==
        PushBlockResult(
          updateExecutionSummary(
            storeBlockMetadata(DataBusSet(DataBusSet(m, block.id, errorMessage), slot_error, errorMessage),
                               block.id, FALSE, errorMessage),
            FALSE),
          [id |-> block.id, success |-> FALSE, error |-> errorMessage])
      Handle(hasMessage) ==
        [m |-> Record(IF hasMessage THEN GetProp(error, k_message) ELSE error),
         thrown |-> IF hasMessage THEN error ELSE Err(ToStr(error)),
         threw |-> shouldThrow /\ ~Truthy(Context_get(m.context, k_continueOnError)),
         ret |-> TRUE]
  IN Handle(~IsNullish(error) /\ Truthy(GetProp(error, k_message)))

\* handleBlockError returning false, so that the loop of execute goes on
handleBlockError_Continue(m, block, error, shouldThrow) ==
  LET Record(errorMessage) ==
        PushBlockResult(
          updateExecutionSummary(
            storeBlockMetadata(DataBusSet(m, slot_error, errorMessage), block.id, FALSE, errorMessage),
            FALSE),
          [id |-> block.id, success |-> FALSE, error |-> errorMessage])
      Handle(hasMessage) ==
        [m |-> Record(IF hasMessage THEN GetProp(error, k_message) ELSE error),
         thrown |-> error, threw |-> FALSE, ret |-> FALSE]
  IN Handle(~IsNullish(error) /\ Truthy(GetProp(error, k_message)))

\* handleBlockError(block, error, duration, shouldThrow): the state after it,
\* whether it threw, and the value it returns otherwise.
handleBlockError(m, block, error, shouldThrow) ==
  LET Record(errorMessage) ==
        PushBlockResult(
          updateExecutionSummary(
            storeBlockMetadata(DataBusSet(m, slot_error, errorMessage), block.id, FALSE, errorMessage),
            FALSE),
          [id |-> block.id, success |-> FALSE, error |-> errorMessage])
      Handle(hasMessage) ==
        [m |-> Record(IF hasMessage THEN GetProp(error, k_message) ELSE error),
         thrown |-> IF hasMessage THEN error ELSE Err(ToStr(error)),
         threw |-> shouldThrow /\ ~Truthy(Context_get(m.context, k_continueOnError)),
         ret |-> TRUE]
  IN Handle(~IsNullish(error) /\ Truthy(GetProp(error, k_message)))

\* handleBlockSuccess without the storeOutput call
handleBlockSuccess_NoStore(m, block, output) ==
  PushBlockResult(updateExecutionSummary(storeBlockMetadata(m, block.id, TRUE, Null), TRUE),
                  [id |-> block.id, success |-> TRUE, error |-> Undefined])

handleBlockSuccess(m, block, output) ==
  PushBlockResult(
    updateExecutionSummary(storeBlockMetadata(storeOutput(m, block, output), block.id, TRUE, Null), TRUE),
    [id |-> block.id, success |-> TRUE, error |-> Undefined])

\* The soft-error branch without the storeOutput call
HandleSoftError_NoStore(m, block, output) ==
  LET Record(m1, error) ==
        PushBlockResult(
          updateExecutionSummary(
            storeBlockMetadata(DataBusSet(m1, slot_error, error), block.id, FALSE, error), FALSE),
          [id |-> block.id, success |-> FALSE, error |-> error])
  IN Record(m, GetProp(output, k_error))

\* The soft-error branch of execute (Pipeline.js 198-214).
HandleSoftError(m, block, output) ==
  LET Record(m1, error) ==
        PushBlockResult(
          updateExecutionSummary(
            storeBlockMetadata(DataBusSet(m1, slot_error, error), block.id, FALSE, error), FALSE),
          [id |-> block.id, success |-> FALSE, error |-> error])
  IN Record(storeOutput(m, block, output), GetProp(output, k_error))

\* blocks.findIndex(b => b.id === blockId), 0-based, -1 if there is none
FindIndexById(blocks, id) ==
  IF \E k \in 1..Len(blocks) : blocks[k].id = id
  THEN (CHOOSE k \in 1..Len(blocks) : blocks[k].id = id /\ \A j \in 1..(k - 1) : blocks[j].id # id) - 1
  ELSE -1

findBlockIndex(blocks, blockId) ==
  IF blockId.t = "number" THEN blockId.n
  ELSE IF blockId.t = "string" THEN FindIndexById(blocks, blockId.s)
  ELSE -1

\* maxLoops after the default parameter value and the coercion of >=
MaxLoopsOf(maxLoops) ==
  CASE maxLoops.t = "undefined" -> MAX_LOOP_ITERATIONS
    [] maxLoops.t = "number" -> maxLoops.n
    [] OTHER -> 0

\* handleLoop returning the target index itself, so that the loop's i++
\* lands on the unit after the target
handleLoop_LandAfter(m, blocks, loopTo, currentIndex, maxLoops) ==
  LET Count(stored) == IF Truthy(stored) THEN stored.n ELSE 0
      Jump(targetIndex, loopKey, loopCount, limit) ==
        IF targetIndex >= 0 /\ targetIndex < currentIndex
        THEN IF loopCount >= limit
             THEN [m |-> m, isNull |-> TRUE, newIndex |-> 0, whole |-> TRUE]
             ELSE [m |-> ContextSet(m, loopKey, Num(loopCount + 1)), isNull |-> FALSE,
                   newIndex |-> targetIndex, whole |-> IsWhole(loopTo)]
        ELSE [m |-> m, isNull |-> TRUE, newIndex |-> 0, whole |-> TRUE]
  IN Jump(findBlockIndex(blocks, loopTo), key_loopCount \o ToStr(loopTo),
          Count(Context_get(m.context, key_loopCount \o ToStr(loopTo))), MaxLoopsOf(maxLoops))

\* handleLoop putting the counter back to 0 when it refuses the jump
handleLoop_Restart(m, blocks, loopTo, currentIndex, maxLoops) ==
  LET Count(stored) == IF Truthy(stored) THEN stored.n ELSE 0
      Jump(targetIndex, loopKey, loopCount, limit) ==
        IF targetIndex >= 0 /\ targetIndex < currentIndex
        THEN IF loopCount >= limit
             THEN [m |-> ContextSet(m, loopKey, Num(0)), isNull |-> TRUE, newIndex |-> 0, whole |-> TRUE]
             ELSE [m |-> ContextSet(m, loopKey, Num(loopCount + 1)), isNull |-> FALSE,
                   newIndex |-> targetIndex - 1, whole |-> IsWhole(loopTo)]
        ELSE [m |-> m, isNull |-> TRUE, newIndex |-> 0, whole |-> TRUE]
  IN Jump(findBlockIndex(blocks, loopTo), key_loopCount \o ToStr(loopTo),
          Count(Context_get(m.context, key_loopCount \o ToStr(loopTo))), MaxLoopsOf(maxLoops))

\* handleLoop comparing the counter with > instead of >=
handleLoop_OffByOne(m, blocks, loopTo, currentIndex, maxLoops) ==
  LET Count(stored) == IF Truthy(stored) THEN stored.n ELSE 0
      Jump(targetIndex, loopKey, loopCount, limit) ==
        IF targetIndex >= 0 /\ targetIndex < currentIndex
        THEN IF loopCount > limit
             THEN [m |-> m, isNull |-> TRUE, newIndex |-> 0, whole |-> TRUE]
             ELSE [m |-> ContextSet(m, loopKey, Num(loopCount + 1)), isNull |-> FALSE,
                   newIndex |-> targetIndex - 1, whole |-> IsWhole(loopTo)]
        ELSE [m |-> m, isNull |-> TRUE, newIndex |-> 0, whole |-> TRUE]
  IN Jump(findBlockIndex(blocks, loopTo), key_loopCount \o ToStr(loopTo),
          Count(Context_get(m.context, key_loopCount \o ToStr(loopTo))), MaxLoopsOf(maxLoops))

\* handleLoop accepting every target that is the index of a block
handleLoop_AnyTarget(m, blocks, loopTo, currentIndex, maxLoops) ==
  LET Count(stored) == IF Truthy(stored) THEN stored.n ELSE 0
      Jump(targetIndex, loopKey, loopCount, limit) ==
        IF targetIndex >= 0 /\ targetIndex < Len(blocks)
        THEN IF loopCount >= limit
             THEN [m |-> m, isNull |-> TRUE, newIndex |-> 0, whole |-> TRUE]
             ELSE [m |-> ContextSet(m, loopKey, Num(loopCount + 1)), isNull |-> FALSE,
                   newIndex |-> targetIndex - 1, whole |-> IsWhole(loopTo)]
        ELSE [m |-> m, isNull |-> TRUE, newIndex |-> 0, whole |-> TRUE]
  IN Jump(findBlockIndex(blocks, loopTo), key_loopCount \o ToStr(loopTo),
          Count(Context_get(m.context, key_loopCount \o ToStr(loopTo))), MaxLoopsOf(maxLoops))

\* handleLoop keeping one counter for all targets
handleLoop_OneCounter(m, blocks, loopTo, currentIndex, maxLoops) ==
  LET Count(stored) == IF Truthy(stored) THEN stored.n ELSE 0
      Jump(targetIndex, loopKey, loopCount, limit) ==
        IF targetIndex >= 0 /\ targetIndex < currentIndex
        THEN IF loopCount >= limit
             THEN [m |-> m, isNull |-> TRUE, newIndex |-> 0, whole |-> TRUE]
             ELSE [m |-> ContextSet(m, loopKey, Num(loopCount + 1)), isNull |-> FALSE,
                   newIndex |-> targetIndex - 1, whole |-> IsWhole(loopTo)]
        ELSE [m |-> m, isNull |-> TRUE, newIndex |-> 0, whole |-> TRUE]
  IN Jump(findBlockIndex(blocks, loopTo), key_loopCount,
          Count(Context_get(m.context, key_loopCount)), MaxLoopsOf(maxLoops))

\* handleLoop(loopTo, currentIndex, maxLoops): the state after it and the
\* returned index (isNull when it returns null).  The returned number is
\* newIndex when whole, and newIndex + 0.5 otherwise.
handleLoop(m, blocks, loopTo, currentIndex, maxLoops) ==
  LET Count(stored) == IF Truthy(stored) THEN stored.n ELSE 0
      Jump(targetIndex, loopKey, loopCount, limit) ==
        IF targetIndex >= 0 /\ targetIndex < currentIndex
        THEN IF loopCount >= limit
             THEN [m |-> m, isNull |-> TRUE, newIndex |-> 0, whole |-> TRUE]
             ELSE [m |-> ContextSet(m, loopKey, Num(loopCount + 1)), isNull |-> FALSE,
                   newIndex |-> targetIndex - 1, whole |-> IsWhole(loopTo)]
        ELSE [m |-> m, isNull |-> TRUE, newIndex |-> 0, whole |-> TRUE]
  IN Jump(findBlockIndex(blocks, loopTo), key_loopCount \o ToStr(loopTo),
          Count(Context_get(m.context, key_loopCount \o ToStr(loopTo))), MaxLoopsOf(maxLoops))

\* checkFlowControl taking only the value true of _terminate as the signal
checkFlowControl_OnlyTrue(m, blocks, output, currentIndex) ==
  LET Loop(h) ==
        IF ~h.isNull THEN [m |-> h.m, action |-> "loop", newIndex |-> h.newIndex, whole |-> h.whole]
        ELSE [m |-> h.m, action |-> "continue", newIndex |-> 0, whole |-> TRUE]
  IN IF Truthy(output) /\ GetProp(output, k_terminate) = Bool(TRUE)
     THEN [m |-> m, action |-> "break", newIndex |-> 0, whole |-> TRUE]
     ELSE IF Truthy(output) /\ GetProp(output, k_loopTo) # Undefined
     THEN Loop(handleLoop(m, blocks, GetProp(output, k_loopTo), currentIndex, GetProp(output, k_maxLoops)))
     ELSE [m |-> m, action |-> "continue", newIndex |-> 0, whole |-> TRUE]

\* checkFlowControl testing _loopTo before _terminate
checkFlowControl_LoopFirst(m, blocks, output, currentIndex) ==
  LET Loop(h) ==
        IF ~h.isNull THEN [m |-> h.m, action |-> "loop", newIndex |-> h.newIndex, whole |-> h.whole]
        ELSE IF Truthy(GetProp(output, k_terminate)) THEN [m |-> h.m, action |-> "break", newIndex |-> 0, whole |-> TRUE]
        ELSE [m |-> h.m, action |-> "continue", newIndex |-> 0, whole |-> TRUE]
  IN IF Truthy(output) /\ GetProp(output, k_loopTo) # Undefined
     THEN Loop(handleLoop(m, blocks, GetProp(output, k_loopTo), currentIndex, GetProp(output, k_maxLoops)))
     ELSE IF Truthy(output) /\ Truthy(GetProp(output, k_terminate))
     THEN [m |-> m, action |-> "break", newIndex |-> 0, whole |-> TRUE]
     ELSE [m |-> m, action |-> "continue", newIndex |-> 0, whole |-> TRUE]

checkFlowControl(m, blocks, output, currentIndex) ==
  LET Loop(h) ==
        IF ~h.isNull THEN [m |-> h.m, action |-> "loop", newIndex |-> h.newIndex, whole |-> h.whole]
        ELSE [m |-> h.m, action |-> "continue", newIndex |-> 0, whole |-> TRUE]
  IN IF Truthy(output) /\ Truthy(GetProp(output, k_terminate))
     THEN [m |-> m, action |-> "break", newIndex |-> 0, whole |-> TRUE]
     ELSE IF Truthy(output) /\ GetProp(output, k_loopTo) # Undefined
     THEN Loop(handleLoop(m, blocks, GetProp(output, k_loopTo), currentIndex, GetProp(output, k_maxLoops)))
     ELSE [m |-> m, action |-> "continue", newIndex |-> 0, whole |-> TRUE]

(***************************************************************************)
(* Pipeline.execute.  An execute() call runs synchronously up to the await *)
(* of executeBlock (Pipeline.js 188) and is resumed later with the         *)
(* measured outcome.  RunFrom is the code from the loop test at cursor i   *)
(* to the next await or to the return; AfterAwait is the code from the     *)
(* await on.  Both give the state of the pipeline and of the call.         *)
(***************************************************************************)
k_contextKey == <<"c", "o", "n", "t", "e", "x", "t">>

NoPending == [result |-> Undefined, error |-> Undefined]

\* The result object with success telling whether the _error slot is absent
BuildResult_ErrorSlot(m) ==
  LET WithError(base) ==
        IF DataBus_has(m.dataBus, slot_error)
        THEN Obj(Put(base, k_error, DataBus_get(m.dataBus, slot_error)))
        ELSE Obj(base)
  IN WithError(Put(Put(Put(<<>>, k_data, DataBus_toObject(m.dataBus)),
                       k_contextKey, Context_toObject(m.context)),
                   k_success, Bool(~DataBus_has(m.dataBus, slot_error))))

\* The result object built at Pipeline.js 233-244.
BuildResult(m) ==
  LET WithError(base) ==
        IF DataBus_has(m.dataBus, slot_error)
        THEN Obj(Put(base, k_error, DataBus_get(m.dataBus, slot_error)))
        ELSE Obj(base)
  IN WithError(Put(Put(Put(<<>>, k_data, DataBus_toObject(m.dataBus)),
                       k_contextKey, Context_toObject(m.context)),
                   k_success, Bool(~m.executionSummary.hasErrors)))

Returned(m, i, trace) ==
  [m |-> m, pc |-> "done", i |-> i, inputs |-> Undefined, pending |-> NoPending,
   result |-> BuildResult(m), trace |-> trace]

Rejected(m, i, trace, thrown) ==
  [m |-> m, pc |-> "rejected", i |-> i, inputs |-> Undefined, pending |-> NoPending,
   result |-> thrown, trace |-> trace]

RECURSIVE RunFrom(_, _, _, _)
RECURSIVE Catch(_, _, _, _, _)

\* catch (error) { if (this.handleBlockError(block, error, 0, false)) break; }
Catch(m, blocks, i, trace, error) ==
  LET Handled(h) ==
        IF h.threw THEN Rejected(h.m, i, trace, h.thrown)
        ELSE IF h.ret THEN Returned(h.m, i, trace)
        ELSE RunFrom(h.m, blocks, i + 1, trace)
  IN Handled(handleBlockError(m, blocks[i + 1], error, FALSE))

\* for (...; i < this.blocks.length; ...) { try { ... await this.executeBlock(block, i)
RunFrom(m, blocks, i, trace) ==
  LET Executed(tr, inputs, r) ==
        [m |-> m, pc |-> "awaiting", i |-> i, inputs |-> inputs,
         pending |-> measureTime(r), result |-> Undefined,
         trace |-> tr \o (IF r.processed THEN <<[ev |-> "process", index |-> i]>> ELSE <<>>)
                      \o (IF r.processed /\ r.threw THEN <<[ev |-> "throw", index |-> i]>> ELSE <<>>)]
      Gathered(block, tr, g) ==
        IF g.threw THEN Catch(m, blocks, i, tr, g.value)
        ELSE Executed(tr, g.value, BlockExecute(block, g.value))
  IN IF i >= Len(blocks) THEN Returned(m, i, trace)
     ELSE Gathered(blocks[i + 1], Append(trace, [ev |-> "exec", index |-> i]),
                   gatherInputs(m, blocks[i + 1]))

\* The loop body entered with the cursor at i + 0.5: this.blocks[i + 0.5] is
\* undefined, executeBlock throws a TypeError reading block.id, and in the
\* catch handleBlockError sets _error and throws another one reading
\* block.id, which leaves execute().
NoBlock(m, i, trace) ==
  Rejected(DataBusSet(m, slot_error, GetProp(Err(s_TypeError), k_message)), i,
           Append(trace, [ev |-> "nounit", index |-> i]), Err(s_TypeError))

\* The body of the loop after the await (Pipeline.js 188-225).
AfterAwait(m, blocks, i, pending, trace) ==
  LET Go(next) ==
        IF next.to = "catch" THEN Catch(next.m, blocks, i, trace, next.thrown)
        ELSE IF next.to = "break" THEN Returned(next.m, i, trace)
        ELSE IF next.to = "nounit" THEN NoBlock(next.m, next.i, trace)
        ELSE RunFrom(next.m, blocks, next.i, trace)
      Failed(h) ==
        [m |-> h.m, to |-> IF h.threw THEN "catch" ELSE IF h.ret THEN "break" ELSE "continue",
         i |-> i + 1, thrown |-> h.thrown]
      Flow(flow) ==
        [m |-> flow.m,
         to |-> IF flow.action = "break" THEN "break"
                ELSE IF flow.action = "loop" /\ ~flow.whole THEN "nounit" ELSE "continue",
         i |-> IF flow.action = "loop" THEN flow.newIndex + 1 ELSE i + 1, thrown |-> Undefined]
      After(block, output, error) ==
        IF Truthy(error) THEN Failed(handleBlockError(m, block, error, FALSE))
        ELSE IF ~IsNullish(output) /\ Truthy(GetProp(output, k_error))
        THEN [m |-> HandleSoftError(m, block, output), to |-> "break", i |-> i, thrown |-> Undefined]
        ELSE Flow(checkFlowControl(handleBlockSuccess(m, block, output), blocks, output, i))
  IN Go(After(blocks[i + 1], pending.result, pending.error))

\* The summary created at Pipeline.js 164-172.
NewSummary(blocks) ==
  [totalBlocks |-> Len(blocks), executed |-> 0, succeeded |-> 0, failed |-> 0,
   hasErrors |-> FALSE, blockResults |-> <<>>]

\* execute() starting from an empty Slot Store
ExecuteStart_Reset(m, blocks, initialInput, initialContext) ==
  LET WithInput(m1) == IF Truthy(initialInput) THEN DataBusSet(m1, k_input, initialInput) ELSE m1
  IN RunFrom(WithInput([m EXCEPT !.executionSummary = NewSummary(blocks),
                                 !.dataBus = <<>>,
                                 !.context = Context_merge(@, initialContext)]),
             blocks, 0, <<>>)

\* execute(initialInput, initialContext) up to its first await or its return.
ExecuteStart(m, blocks, initialInput, initialContext) ==
  LET WithInput(m1) == IF Truthy(initialInput) THEN DataBusSet(m1, k_input, initialInput) ELSE m1
  IN RunFrom(WithInput([m EXCEPT !.executionSummary = NewSummary(blocks),
                                 !.context = Context_merge(@, initialContext)]),
             blocks, 0, <<>>)

RECURSIVE RunToEnd(_, _)
\* await pipeline.execute(...): the call run to its return, every await of
\* Pipeline.js 188 answered at once.
RunToEnd(bs, seg) ==
  IF seg.pc = "awaiting" THEN RunToEnd(bs, AfterAwait(seg.m, bs, seg.i, seg.pending, seg.trace))
  ELSE seg

(***************************************************************************)
(* The state.                                                              *)
(***************************************************************************)
VARIABLES
  blocks,            \* Pipeline.blocks
  dataBus,           \* Pipeline.dataBus.slots
  context,           \* Pipeline.context.data
  executionSummary,  \* Pipeline.executionSummary
  calls,             \* the execute() calls made on the pipeline
  queue,             \* the suspended calls, in the order they resume
  template,          \* the argument of a resolveValue call
  resolved,          \* what that call returned
  suiteRun,          \* a runSuite call of the SuiteRunner
  pathCall           \* a setPath call followed by getPath

vars == <<blocks, dataBus, context, executionSummary, calls, queue, template, resolved, suiteRun, pathCall>>

Machine == [dataBus |-> dataBus, context |-> context, executionSummary |-> executionSummary]

Calls == 1..MaxCalls

\* No resolveValue call has returned.
NotResolved == [t |-> "none"]

\* No suite is run; no path call is made.
NoSuite == [phase |-> "none"]
NoPathCall == [pc |-> "none"]

IdleCall ==
  [pc |-> "idle", i |-> 0, input |-> Undefined, initialContext |-> Undefined,
   inputs |-> Undefined, pending |-> NoPending,
   result |-> Undefined, trace |-> <<>>]

(***************************************************************************)
(* The blocks pipelines are built from, and the arguments of execute().    *)
(***************************************************************************)
id_a == <<"a">>
id_b == <<"b">>
id_e == <<"e">>
id_p == <<"p">>
id_l == <<"l">>
id_t == <<"t">>
id_n == <<"n">>
id_z == <<"z">>
id_h == <<"h">>
id_m == <<"m">>
id_r == <<"r">>
id_k == <<"k">>
slot_s == <<"s">>
path_input_body == <<"i", "n", "p", "u", "t", ".", "b", "o", "d", "y">>
path_a_result == <<"a", ".", "r", "e", "s", "u", "l", "t">>

FromAs(from, as) == Obj(Put(Put(<<>>, k_from, Str(from)), k_as, Str(as)))

LoopSignal(loopTo, maxLoops) == Obj(Put(Put(<<>>, k_loopTo, loopTo), k_maxLoops, Num(maxLoops)))

\* new TestBlock({ id: 'a', input: { from: 'input.body', as: 'value' } })
BlockA == Block("TestBlock", Obj(Put(Put(<<>>, k_id, Str(id_a)), k_input, FromAs(path_input_body, k_value))))

\* new TestBlock({ id: 'b', input: { from: 'a.result', as: 'value' }, output: 's' })
BlockB ==
  Block("TestBlock", Obj(Put(Put(Put(<<>>, k_id, Str(id_b)), k_input, FromAs(path_a_result, k_value)),
                             k_output, Str(slot_s))))

\* new ErrorBlock({ id: 'e' })
BlockE == Block("ErrorBlock", Obj1(k_id, Str(id_e)))

\* { block: 'JsonParser', id: 'p', input: { from: 'input.body', as: 'body' } }
BlockP == Block("JsonParser", Obj(Put(Put(<<>>, k_id, Str(id_p)), k_input, FromAs(path_input_body, k_body))))

\* { block: 'MockData', id: 'l', config: { data: { _loopTo: 'a', _maxLoops: 2 } } }
BlockL ==
  Block("MockData", Obj(Put(Put(<<>>, k_id, Str(id_l)),
                            k_config, Obj1(k_data, LoopSignal(Str(id_a), 2)))))

\* { block: 'MockData', id: 'k', config: { data: { _loopTo: 'a', _maxLoops: 1 } } }
BlockK ==
  Block("MockData", Obj(Put(Put(<<>>, k_id, Str(id_k)),
                            k_config, Obj1(k_data, LoopSignal(Str(id_a), 1)))))

\* { block: 'MockData', id: 't', config: { data: { _terminate: true } } }
BlockT ==
  Block("MockData", Obj(Put(Put(<<>>, k_id, Str(id_t)),
                            k_config, Obj1(k_data, Obj1(k_terminate, Bool(TRUE))))))

\* { block: 'MockData', id: 'n', config: { data: { _loopTo: 1, _maxLoops: 1 } } }
BlockN ==
  Block("MockData", Obj(Put(Put(<<>>, k_id, Str(id_n)),
                            k_config, Obj1(k_data, LoopSignal(Num(1), 1)))))

\* { block: 'MockData', id: 'z', config: { data: { _loopTo: 'q', _maxLoops: 1 } } }
BlockZ ==
  Block("MockData", Obj(Put(Put(<<>>, k_id, Str(id_z)),
                            k_config, Obj1(k_data, LoopSignal(Str(<<"q">>), 1)))))

\* { block: 'MockData', id: 'm', config: { data: { _loopTo: -1, _maxLoops: 1 } } }
BlockM ==
  Block("MockData", Obj(Put(Put(<<>>, k_id, Str(id_m)),
                            k_config, Obj1(k_data, LoopSignal(Num(-1), 1)))))

\* new TestBlock({ id: 'r', input: { input1: '${a.result}', input2: '${input.body}' } })
\* with the TestBlock of Block.test.js, which requires input1 and input2
BlockR ==
  Block("TestBlockRequired",
        Obj(Put(Put(<<>>, k_id, Str(id_r)),
                k_input, Obj(Put(Put(<<>>, k_input1, Str(s_open \o path_a_result \o <<"}">>)),
                                 k_input2, Str(s_open \o path_input_body \o <<"}">>))))))

Catalogue == {BlockA, BlockB, BlockE, BlockP, BlockR, BlockL, BlockK, BlockT, BlockN, BlockZ, BlockM}

Pipelines == UNION {[1..n -> Catalogue] : n \in 0..MaxBlocks}

InitialInputs == {EmptyObj, Obj1(k_body, Str(<<"1">>)), Obj1(k_body, Str(<<"x">>))}

InitialContexts == {EmptyObj, Obj1(k_continueOnError, Bool(TRUE))}

(***************************************************************************)
(* Actions.                                                                *)
(***************************************************************************)
\* new Pipeline(blocks)
Init ==
  /\ blocks \in Pipelines
  /\ dataBus = <<>>
  /\ context = <<>>
  /\ executionSummary = Null
  /\ calls = [c \in Calls |-> IdleCall]
  /\ queue = <<>>
  /\ template = Undefined
  /\ resolved = NotResolved
  /\ suiteRun = NoSuite
  /\ pathCall = NoPathCall

Install(c, seg, input, initialContext, rest) ==
  /\ dataBus' = seg.m.dataBus
  /\ context' = seg.m.context
  /\ executionSummary' = seg.m.executionSummary
  /\ calls' = [calls EXCEPT ![c] = [pc |-> seg.pc, i |-> seg.i, input |-> input,
                                     initialContext |-> initialContext,
                                     inputs |-> seg.inputs, pending |-> seg.pending,
                                     result |-> seg.result, trace |-> seg.trace]]
  /\ queue' = IF seg.pc = "awaiting" THEN Append(rest, c) ELSE rest
  /\ UNCHANGED <<blocks, template, resolved, suiteRun, pathCall>>

\* pipeline.execute(initialInput, initialContext) is called: call c runs to
\* its first await (or to its return).
Start(c, initialInput, initialContext) ==
  /\ calls[c].pc = "idle"
  /\ \A d \in Calls : d < c => calls[d].pc # "idle"
  /\ Install(c, ExecuteStart(Machine, blocks, initialInput, initialContext), initialInput,
             initialContext, queue)

\* The awaited executeBlock of the call at the head of the queue settles:
\* the call runs to its next await (or to its return).
Resume(c) ==
  /\ queue # <<>>
  /\ Head(queue) = c
  /\ calls[c].pc = "awaiting"
  /\ Install(c, AfterAwait(Machine, blocks, calls[c].i, calls[c].pending, calls[c].trace),
             calls[c].input, calls[c].initialContext, Tail(queue))

\* One execute() call on a new pipeline.
StartFirst == \E input \in InitialInputs, ctx \in InitialContexts : Start(1, input, ctx)

Step == \E c \in Calls : Resume(c)

Next == StartFirst \/ Step

Spec == Init /\ [][Next]_vars

(***************************************************************************)
(* Several execute() calls on one pipeline, each started without awaiting  *)
(* the ones before it.  The units are those that succeed on every input    *)
(* given here.                                                             *)
(***************************************************************************)
OverlapCatalogue == {BlockA, BlockB, BlockP}

OverlapPipelines == UNION {[1..n -> OverlapCatalogue] : n \in 1..MaxBlocks}

OverlapInputs == {Obj1(k_body, Str(<<"1">>)), Obj1(k_body, Str(<<"2">>))}

InitOverlap ==
  /\ blocks \in OverlapPipelines
  /\ dataBus = <<>>
  /\ context = <<>>
  /\ executionSummary = Null
  /\ calls = [c \in Calls |-> IdleCall]
  /\ queue = <<>>
  /\ template = Undefined
  /\ resolved = NotResolved
  /\ suiteRun = NoSuite
  /\ pathCall = NoPathCall

\* promises.push(pipeline.execute({ body: ... }))
StartNext == \E c \in Calls, input \in OverlapInputs : Start(c, input, EmptyObj)

NextOverlap == StartNext \/ Step

SpecOverlap == InitOverlap /\ [][NextOverlap]_vars

(***************************************************************************)
(* resolveValue on a pipeline whose Context and Slot Store hold values     *)
(* under the same keys.                                                    *)
(***************************************************************************)
key_X == <<"X">>
key_a == <<"a">>
key_b == <<"b">>
key_a_b == <<"a", ".", "b">>
key_env_X == s_env \o key_X

ResolveKeys == {key_X, key_a_b, key_env_X}

ContextValues == {Str(<<"c">>), Num(5)}

SlotValues == {Str(<<"d">>), Num(7)}

\* '${key}'
Placeholder(key) == s_open \o key \o <<"}">>

RECURSIVE TemplateOf(_)
\* `<${k1}/${k2}/...>` without the closing bracket
TemplateOf(keys) ==
  IF Len(keys) = 1 THEN <<"<">> \o Placeholder(keys[1])
  ELSE TemplateOf(SubSeq(keys, 1, Len(keys) - 1)) \o <<"/">> \o Placeholder(keys[Len(keys)])

KeySeqs == UNION {[1..n -> ResolveKeys] : n \in 1..MaxOccurrences}

Templates ==
  {Str(Placeholder(key)) : key \in ResolveKeys} \cup {Str(TemplateOf(keys) \o <<">">>) : keys \in KeySeqs}

\* The maps a Context can hold under the keys.
ContextMaps ==
  UNION {[keys -> ContextValues] : keys \in SUBSET ResolveKeys}

\* The slots a Slot Store can hold: the keys as slot names and, for the
\* dotted key, a slot whose value has the property.
SlotMaps ==
  UNION {[names -> SlotValues] : names \in SUBSET {key_X, key_env_X}}
  \cup {Put(f, key_a, Obj1(key_b, v)) :
          f \in UNION {[names -> SlotValues] : names \in SUBSET {key_X, key_env_X}},
          v \in SlotValues}

InitResolve ==
  /\ blocks = <<>>
  /\ dataBus \in SlotMaps
  /\ context \in ContextMaps
  /\ executionSummary = Null
  /\ calls = [c \in Calls |-> IdleCall]
  /\ queue = <<>>
  /\ template \in Templates
  /\ resolved = NotResolved
  /\ suiteRun = NoSuite
  /\ pathCall = NoPathCall

\* pipeline.resolveValue(template)
Resolve ==
  /\ resolved = NotResolved
  /\ resolved' = resolveValue(Machine, template)
  /\ UNCHANGED <<blocks, dataBus, context, executionSummary, calls, queue, template, suiteRun, pathCall>>

\* pipeline.context.delete(key), before the same template is resolved again
ContextDelete ==
  /\ resolved # NotResolved
  /\ \E key \in DOMAIN context :
       context' = [k \in (DOMAIN context) \ {key} |-> context[k]]
  /\ resolved' = NotResolved
  /\ UNCHANGED <<blocks, dataBus, executionSummary, calls, queue, template, suiteRun, pathCall>>

NextResolve == Resolve \/ ContextDelete

SpecResolve == InitResolve /\ [][NextResolve]_vars

(***************************************************************************)
(* Pipelines of units whose output is stored through a record-shaped       *)
(* `output` mapping, next to units stored under their id.                  *)
(***************************************************************************)
id_x == <<"x">>
id_y == <<"y">>
slot_parseError == <<"p", "a", "r", "s", "e", "E", "r", "r", "o", "r">>
k_extra == <<"e", "x", "t", "r", "a">>
s_ignored == <<"i", "g", "n", "o", "r", "e", "d">>
s_bad == <<"b", "a", "d">>

MockStep(id, data, output) ==
  Block("MockData", Obj(Put(Put(Put(<<>>, k_id, Str(id)), k_config, Obj1(k_data, data)), k_output, output)))

\* output: { parsed: 'data', error: 'parseError' }
MappingPE == Obj(Put(Put(<<>>, k_parsed, Str(k_data)), k_error, Str(slot_parseError)))

\* { id: 'x', output: { parsed: 'data', error: 'parseError' } } giving
\* { parsed: { value: 42 }, error: null, extra: 'ignored' }
BlockX ==
  MockStep(id_x,
           Obj(Put(Put(Put(<<>>, k_parsed, Obj1(k_value, Num(42))), k_error, Null), k_extra, Str(s_ignored))),
           MappingPE)

\* { id: 'y', output: { parsed: 'data', raw: 'y' } } giving { parsed: 7 }:
\* the field raw is undefined, and the mapping names the unit's own id
BlockY ==
  MockStep(id_y, Obj1(k_parsed, Num(7)), Obj(Put(Put(<<>>, k_parsed, Str(k_data)), k_raw, Str(id_y))))

\* { id: 'y', output: { parsed: 'y' } } giving { parsed: 7 }
BlockW == MockStep(id_y, Obj1(k_parsed, Num(7)), Obj1(k_parsed, Str(id_y)))

\* { id: 'x', output: { parsed: 'data', error: 'parseError' } } giving
\* { parsed: 1, error: 'bad' }
BlockS == MockStep(id_x, Obj(Put(Put(<<>>, k_parsed, Num(1)), k_error, Str(s_bad))), MappingPE)

\* { id: 'x' } giving { raw: 1 }, stored under the id
BlockU == Block("MockData", Obj(Put(Put(<<>>, k_id, Str(id_x)), k_config, Obj1(k_data, Obj1(k_raw, Num(1))))))

\* { id: 'y', output: 'data' } giving { raw: 2 }, stored under 'data'
BlockV == MockStep(id_y, Obj1(k_raw, Num(2)), Str(k_data))

StoreCatalogue == {BlockX, BlockY, BlockW, BlockS, BlockU, BlockV}

StorePipelines == UNION {[1..n -> StoreCatalogue] : n \in 1..MaxBlocks}

InitStore ==
  /\ blocks \in StorePipelines
  /\ dataBus = <<>>
  /\ context = <<>>
  /\ executionSummary = Null
  /\ calls = [c \in Calls |-> IdleCall]
  /\ queue = <<>>
  /\ template = Undefined
  /\ resolved = NotResolved
  /\ suiteRun = NoSuite
  /\ pathCall = NoPathCall

SpecStore == InitStore /\ [][Next]_vars

(***************************************************************************)
(* Pipelines of units that signal termination, with the values _terminate  *)
(* can take, next to units that loop and units that do neither.            *)
(***************************************************************************)
id_u == <<"u">>
id_f == <<"f">>

\* { block: 'MockData', id: 'u', config: { data: { _terminate: 1, _loopTo: 'a', _maxLoops: 2 } } }
BlockT1 ==
  Block("MockData", Obj(Put(Put(<<>>, k_id, Str(id_u)),
                            k_config, Obj1(k_data, Obj(Put(LoopSignal(Str(id_a), 2).o, k_terminate, Num(1)))))))

\* { block: 'MockData', id: 'f', config: { data: { _terminate: false } } }
BlockF ==
  Block("MockData", Obj(Put(Put(<<>>, k_id, Str(id_f)),
                            k_config, Obj1(k_data, Obj1(k_terminate, Bool(FALSE))))))

FlowCatalogue == {BlockA, BlockB, BlockT, BlockT1, BlockF, BlockL}

FlowPipelines == UNION {[1..n -> FlowCatalogue] : n \in 1..MaxBlocks}

InitFlow ==
  /\ blocks \in FlowPipelines
  /\ dataBus = <<>>
  /\ context = <<>>
  /\ executionSummary = Null
  /\ calls = [c \in Calls |-> IdleCall]
  /\ queue = <<>>
  /\ template = Undefined
  /\ resolved = NotResolved
  /\ suiteRun = NoSuite
  /\ pathCall = NoPathCall

SpecFlow == InitFlow /\ [][Next]_vars

(***************************************************************************)
(* PipelineBuilder: pipelines built from JSON definitions.                 *)
(***************************************************************************)
k_pipeline == <<"p", "i", "p", "e", "l", "i", "n", "e">>
k_name == <<"n", "a", "m", "e">>
k_version == <<"v", "e", "r", "s", "i", "o", "n">>
k_assertions == <<"a", "s", "s", "e", "r", "t", "i", "o", "n", "s">>
k_test == <<"_", "t", "e", "s", "t">>
k_count == <<"c", "o", "u", "n", "t">>

\* The block types of registerDefaults that have a model here.
RegisteredKinds == {"JsonParser", "Loop", "MockData"}

\* blockRegistry.get(name), for a registered name
blockRegistry_get(name) == CHOOSE kind \in RegisteredKinds : ClassName(kind) = name

\* PipelineBuilder.addBlock(blockDef), for a registered block type
addBlock(bs, blockDef) ==
  LET Or(a, b) == IF Truthy(a) THEN a ELSE b
  IN Append(bs, Block(blockRegistry_get(ToStr(GetProp(blockDef, k_block))),
                      Obj(Put(Spread(blockDef), k_id, Or(GetProp(blockDef, k_id), GetProp(blockDef, k_block))))))

RECURSIVE AddBlocks(_, _)
\* for (const blockDef of config.pipeline || []) builder.addBlock(blockDef)
AddBlocks(bs, defs) == IF defs = <<>> THEN bs ELSE AddBlocks(addBlock(bs, Head(defs)), Tail(defs))

\* PipelineBuilder.fromJSON(config) for a definition without a context
\* record: the blocks of the pipeline and its Context.
fromJSON(config) ==
  LET Steps(pipeline) == IF Truthy(pipeline) THEN pipeline.a ELSE <<>>
      Meta == Obj(Put(Put(Put(Put(Put(<<>>, k_name, GetProp(config, k_name)),
                                  k_version, GetProp(config, k_version)),
                              k_input, GetProp(config, k_input)),
                          k_output, GetProp(config, k_output)),
                      k_assertions, GetProp(config, k_assertions)))
  IN [blocks |-> AddBlocks(<<>>, Steps(GetProp(config, k_pipeline))),
      context |-> Put(<<>>, k_test, Meta)]

\* { id: 'a', block: 'MockData', config: { data: { count: 1 } }, output: 'data' }
StepCounter ==
  Obj(Put(Put(Put(Put(<<>>, k_id, Str(id_a)), k_block, Str(ClassName("MockData"))),
              k_config, Obj1(k_data, Obj1(k_count, Num(1)))),
          k_output, Str(k_data)))

\* { id: 'b', block: 'MockData', config: { data: { count: 2 } } }
StepOther ==
  Obj(Put(Put(Put(<<>>, k_id, Str(id_b)), k_block, Str(ClassName("MockData"))),
          k_config, Obj1(k_data, Obj1(k_count, Num(2)))))

\* { block: 'Loop', config: { target: 'a', maxIterations: n } }
StepLoop(n) ==
  Obj(Put(Put(<<>>, k_block, Str(ClassName("Loop"))),
          k_config, Obj(Put(Put(<<>>, k_target, Str(id_a)), k_maxIterations, Num(n)))))

\* { block: 'Loop', id: 'l', target: 'a', maxIterations: 1 }
StepLoopFlat ==
  Obj(Put(Put(Put(Put(<<>>, k_block, Str(ClassName("Loop"))), k_id, Str(id_l)),
              k_target, Str(id_a)), k_maxIterations, Num(1)))

StepCatalogue == {StepCounter, StepOther, StepLoop(1), StepLoop(2), StepLoopFlat}

Definitions ==
  {Obj(Put(Put(<<>>, k_name, Str(s_test)), k_pipeline, Arr(steps))) :
     steps \in UNION {[1..n -> StepCatalogue] : n \in 1..MaxBlocks}}

\* pipeline = PipelineBuilder.fromJSON(config)
InitBuilt ==
  /\ \E config \in Definitions :
       /\ blocks = fromJSON(config).blocks
       /\ context = fromJSON(config).context
  /\ dataBus = <<>>
  /\ executionSummary = Null
  /\ calls = [c \in Calls |-> IdleCall]
  /\ queue = <<>>
  /\ template = Undefined
  /\ resolved = NotResolved
  /\ suiteRun = NoSuite
  /\ pathCall = NoPathCall

SpecBuilt == InitBuilt /\ [][Next]_vars

(***************************************************************************)
(* Several execute() calls on one pipeline, each awaited before the next   *)
(* one is made.                                                            *)
(***************************************************************************)
SequenceCatalogue == {BlockA, BlockB, BlockE, BlockP, BlockL}

SequencePipelines == UNION {[1..n -> SequenceCatalogue] : n \in 0..MaxBlocks}

SequenceInputs == {Null, Obj1(k_body, Str(<<"1">>)), Obj1(k_body, Str(<<"x">>))}

SequenceContexts == {Obj1(key_X, Num(5)), Obj1(key_X, Num(7))}

InitSequence ==
  /\ blocks \in SequencePipelines
  /\ dataBus = <<>>
  /\ context = <<>>
  /\ executionSummary = Null
  /\ calls = [c \in Calls |-> IdleCall]
  /\ queue = <<>>
  /\ template = Undefined
  /\ resolved = NotResolved
  /\ suiteRun = NoSuite
  /\ pathCall = NoPathCall

\* await pipeline.execute(input, context), after the calls before it returned
StartAfter ==
  \E c \in Calls, input \in SequenceInputs, ctx \in SequenceContexts :
    /\ \A d \in Calls : d < c => calls[d].pc = "done"
    /\ Start(c, input, ctx)

NextSequence == StartAfter \/ Step

SpecSequence == InitSequence /\ [][NextSequence]_vars

(***************************************************************************)
(* SuiteRunner.runSuite: the setup pipeline, one new pipeline per test,    *)
(* and the teardown pipeline of a suite.                                   *)
(***************************************************************************)
k_setup == <<"s", "e", "t", "u", "p">>
k_tests == <<"t", "e", "s", "t", "s">>
k_teardown == <<"t", "e", "a", "r", "d", "o", "w", "n">>
slot_setupData == <<"s", "e", "t", "u", "p", "D", "a", "t", "a">>
slot_result == <<"r", "e", "s", "u", "l", "t">>
s_SetupFailed == <<"S", "e", "t", "u", "p", " ", "f", "a", "i", "l", "e", "d">>
id_create == <<"c", "r", "e", "a", "t", "e">>
id_use == <<"u", "s", "e">>
id_t1 == <<"t", "1">>
id_t2 == <<"t", "2">>
id_t3 == <<"t", "3">>
id_t4 == <<"t", "4">>
id_t5 == <<"t", "5">>
id_t6 == <<"t", "6">>
id_t7 == <<"t", "7">>
s_Nope == <<"N", "o", "p", "e">>
s_UnknownBlock ==
  <<"U", "n", "k", "n", "o", "w", "n", " ", "b", "l", "o", "c", "k", " ", "t", "y", "p", "e", ":", " ">>
path_data_count == <<"d", "a", "t", "a", ".", "c", "o", "u", "n", "t">>
path_setup_id == <<"s", "e", "t", "u", "p", "D", "a", "t", "a", ".", "b", "o", "d", "y", ".", "i", "d">>
path_result_parsed == <<"r", "e", "s", "u", "l", "t", ".", "p", "a", "r", "s", "e", "d">>

MaxTests == 2

\* suite.setup && suite.setup.length > 0, for a list of steps or nothing
HasSteps(steps) == Truthy(steps) /\ Len(steps.a) > 0

\* blockRegistry.get(blockDef.block) is undefined
Unregistered(blockDef) ==
  \A kind \in RegisteredKinds : ClassName(kind) # ToStr(GetProp(blockDef, k_block))

\* The error addBlock throws while fromJSON adds the steps of the list, for
\* the first step of an unknown block type; Undefined when every type is
\* registered.
BuildError(pipeline) ==
  LET steps == IF Truthy(pipeline) THEN pipeline.a ELSE <<>>
      unknown == {k \in 1..Len(steps) : Unregistered(steps[k])}
      first == CHOOSE k \in unknown : \A j \in unknown : k <= j
  IN IF unknown = {} THEN Undefined
     ELSE Err(s_UnknownBlock \o ToStr(GetProp(steps[first], k_block)))

\* SuiteRunner.checkAssertions(result, assertions).passed, for assertions
\* of the simple form { 'path': expected } with a primitive expected value
checkAssertions(result, assertions) ==
  IF ~Truthy(assertions) THEN TRUE
  ELSE \A assertPath \in DOMAIN assertions.o :
         getPath(GetProp(result, k_data), assertPath) = assertions.o[assertPath]

\* { id: 'create', block: 'MockData', config: { data: { body: { id: 7 } } }, output: 'setupData' }
StepCreate ==
  Obj(Put(Put(Put(Put(<<>>, k_id, Str(id_create)), k_block, Str(ClassName("MockData"))),
              k_config, Obj1(k_data, Obj1(k_body, Obj1(k_id, Num(7))))),
          k_output, Str(slot_setupData)))

\* { id: 'p', block: 'JsonParser', input: { body: 'x' } }
StepBroken ==
  Obj(Put(Put(Put(<<>>, k_id, Str(id_p)), k_block, Str(ClassName("JsonParser"))),
          k_input, Obj1(k_body, Str(<<"x">>))))

\* { id: 'use', block: 'JsonParser', input: { body: '${<path>}' }, output: 'result' }
StepUse(path) ==
  Obj(Put(Put(Put(Put(<<>>, k_id, Str(id_use)), k_block, Str(ClassName("JsonParser"))),
              k_input, Obj1(k_body, Str(s_open \o path \o <<"}">>))),
          k_output, Str(slot_result)))

\* { id: 't1', pipeline: [ use ${setupData.body.id} ], assertions: { 'result.parsed': 7 } }
TestUseSlot ==
  Obj(Put(Put(Put(<<>>, k_id, Str(id_t1)), k_pipeline, Arr(<<StepUse(path_setup_id)>>)),
          k_assertions, Obj1(path_result_parsed, Num(7))))

\* { id: 't2', pipeline: [ use ${input.setupData.body.id} ], assertions: { 'result.parsed': 7 } }
TestUseInput ==
  Obj(Put(Put(Put(<<>>, k_id, Str(id_t2)),
              k_pipeline, Arr(<<StepUse(k_input \o <<".">> \o path_setup_id)>>)),
          k_assertions, Obj1(path_result_parsed, Num(7))))

\* { id: 't3', input: { body: '1' }, pipeline: [ b ] }
TestOwnInput ==
  Obj(Put(Put(Put(<<>>, k_id, Str(id_t3)), k_input, Obj1(k_body, Str(<<"1">>))),
          k_pipeline, Arr(<<StepOther>>)))

\* { id: 'z', block: 'Nope' }: no block type of that name is registered
StepUnknown == Obj(Put(Put(<<>>, k_id, Str(id_z)), k_block, Str(s_Nope)))

\* { id: 'h', block: 'MockData', config: { data: { _loopTo: 0.5, _maxLoops: 2 } } }
StepHalf ==
  Obj(Put(Put(Put(<<>>, k_id, Str(id_h)), k_block, Str(ClassName("MockData"))),
          k_config, Obj1(k_data, LoopSignal(Half(0), 2))))

\* [ b, h ]: execute() of this pipeline rejects
StepsRejecting == Arr(<<StepOther, StepHalf>>)

\* { id: 't4', pipeline: [ z ] }: building the pipeline throws
TestUnknown == Obj(Put(Put(<<>>, k_id, Str(id_t4)), k_pipeline, Arr(<<StepUnknown>>)))

\* { id: 't5', pipeline: [ b, h ] }
TestRejects == Obj(Put(Put(<<>>, k_id, Str(id_t5)), k_pipeline, StepsRejecting))

\* { id: 't6', pipeline: [ a (output 'data'), l (Loop to 'a', once) ] }: writes
\* the slots data and l and the loop counter of 'a'
TestLoop ==
  Obj(Put(Put(<<>>, k_id, Str(id_t6)), k_pipeline, Arr(<<StepCounter, StepLoopFlat>>)))

\* { id: 't7', pipeline: [ use ${data.count} ] }: reads the slot TestLoop writes
TestReadData ==
  Obj(Put(Put(<<>>, k_id, Str(id_t7)), k_pipeline, Arr(<<StepUse(path_data_count)>>)))

SuiteSetups ==
  {Undefined, Arr(<<StepCreate>>), Arr(<<StepBroken>>), Arr(<<StepUnknown>>), StepsRejecting}

SuiteTests ==
  {TestUseSlot, TestUseInput, TestOwnInput, TestUnknown, TestRejects, TestLoop, TestReadData}

SuiteTeardowns ==
  {Undefined, Arr(<<StepUse(path_setup_id)>>), Arr(<<StepOther>>), Arr(<<StepUnknown>>),
   StepsRejecting, Arr(<<StepUse(path_data_count)>>)}

\* suite.input: none, or { body: '2' }
SuiteInputs == {Undefined, Obj1(k_body, Str(<<"2">>))}

\* The suite definitions that are run.
Suites ==
  {Obj(Put(Put(Put(Put(Put(<<>>, k_name, Str(s_test)), k_input, input), k_setup, setup),
               k_tests, Arr(tests)), k_teardown, teardown)) :
     input \in SuiteInputs,
     setup \in SuiteSetups,
     tests \in UNION {[1..n -> SuiteTests] : n \in 0..MaxTests},
     teardown \in SuiteTeardowns}

\* runSuite(suite) is called: suiteResult and setupData as initialised at
\* part_003 100-110, and no pipeline built yet.
InitSuite ==
  /\ \E suite \in Suites :
       suiteRun = [phase |-> "setup", running |-> "none", suite |-> suite,
                   setupData |-> EmptyObj, tests |-> <<>>, success |-> FALSE,
                   setupError |-> Undefined, teardownResult |-> Null, error |-> Undefined]
  /\ blocks = <<>>
  /\ dataBus = <<>>
  /\ context = <<>>
  /\ executionSummary = Null
  /\ calls = [c \in Calls |-> IdleCall]
  /\ queue = <<>>
  /\ template = Undefined
  /\ resolved = NotResolved
  /\ pathCall = NoPathCall

\* fromJSON handing out one Pipeline, its Slot Store and Context kept from
\* the pipeline before
Built_Shared(pipeline, running) ==
  /\ blocks' = fromJSON(Obj(Put(Spread(suiteRun.suite), k_pipeline, pipeline))).blocks
  /\ calls' = [c \in Calls |-> IdleCall]
  /\ queue' = <<>>
  /\ suiteRun' = [suiteRun EXCEPT !.running = running]
  /\ UNCHANGED <<dataBus, context, executionSummary, template, resolved, pathCall>>

\* PipelineBuilder.fromJSON({ ...suite, pipeline }): the pipeline of the state
\* is the new one, with no execute() call made on it.
Built(pipeline, running) ==
  LET New(built) ==
        /\ blocks' = built.blocks
        /\ context' = built.context
  IN /\ New(fromJSON(Obj(Put(Spread(suiteRun.suite), k_pipeline, pipeline))))
     /\ dataBus' = <<>>
     /\ executionSummary' = Null
     /\ calls' = [c \in Calls |-> IdleCall]
     /\ queue' = <<>>
     /\ suiteRun' = [suiteRun EXCEPT !.running = running]
     /\ UNCHANGED <<template, resolved, pathCall>>

\* runSuite goes on without building a pipeline.
Skipped(next) ==
  /\ suiteRun' = next
  /\ UNCHANGED <<blocks, dataBus, context, executionSummary, calls, queue, template, resolved,
                 pathCall>>

\* suiteResult.success = suiteResult.tests.every(t => t.success)
EveryTestSucceeded == \A n \in 1..Len(suiteRun.tests) : suiteRun.tests[n].success

\* The catch of runSuite (part_003 250-263): the result is errorResult, with
\* success false and error, and without tests and setupError.
SuiteThrew(error) ==
  [suiteRun EXCEPT !.phase = "done", !.running = "none", !.success = FALSE,
                   !.error = GetProp(error, k_message)]

\* The catch of a test (part_003 192-206): a failed test result is pushed.
TestThrew(test, i, error) ==
  LET Or(a, b) == IF Truthy(a) THEN a ELSE b
  IN [suiteRun EXCEPT
        !.running = "none",
        !.tests = Append(@,
          [id |-> Or(GetProp(test, k_id), Str(<<"t", "e", "s", "t", "-">> \o NatToStr(i))),
           success |-> FALSE, error |-> GetProp(error, k_message)])]

\* The catch of the teardown (part_003 233-237), and the end of runSuite.
TeardownThrew(error) ==
  [suiteRun EXCEPT !.phase = "done", !.running = "none", !.success = EveryTestSucceeded,
                   !.teardownResult = Obj(Put(Put(<<>>, k_success, Bool(FALSE)),
                                              k_error, GetProp(error, k_message)))]

\* if (suite.setup && ... suite.setup.length > 0) setupPipeline = fromJSON(...)
BuildSetup ==
  /\ suiteRun.phase = "setup"
  /\ suiteRun.running = "none"
  /\ IF ~HasSteps(GetProp(suiteRun.suite, k_setup))
     THEN Skipped([suiteRun EXCEPT !.phase = "tests"])
     ELSE IF BuildError(GetProp(suiteRun.suite, k_setup)) # Undefined
     THEN Skipped(SuiteThrew(BuildError(GetProp(suiteRun.suite, k_setup))))
     ELSE Built(GetProp(suiteRun.suite, k_setup), "setup")

\* for (let i = 0; i < (suite.tests || []).length; i++): testPipeline = fromJSON(...)
BuildTest ==
  LET Or(a, b) == IF Truthy(a) THEN a ELSE b
      Turn(test) ==
        IF BuildError(GetProp(test, k_pipeline)) # Undefined
        THEN Skipped(TestThrew(test, Len(suiteRun.tests), BuildError(GetProp(test, k_pipeline))))
        ELSE Built(Or(GetProp(test, k_pipeline), Arr(<<>>)), "test")
  IN /\ suiteRun.phase = "tests"
     /\ suiteRun.running = "none"
     /\ Len(suiteRun.tests) < Len(GetProp(suiteRun.suite, k_tests).a)
     /\ Turn(GetProp(suiteRun.suite, k_tests).a[Len(suiteRun.tests) + 1])

\* runSuite running the teardown only when every test succeeded
BuildTeardown_IfPassed ==
  /\ suiteRun.phase = "tests"
  /\ suiteRun.running = "none"
  /\ Len(suiteRun.tests) = Len(GetProp(suiteRun.suite, k_tests).a)
  /\ IF ~HasSteps(GetProp(suiteRun.suite, k_teardown)) \/ ~EveryTestSucceeded
     THEN Skipped([suiteRun EXCEPT !.phase = "done", !.success = EveryTestSucceeded])
     ELSE IF BuildError(GetProp(suiteRun.suite, k_teardown)) # Undefined
     THEN Skipped(TeardownThrew(BuildError(GetProp(suiteRun.suite, k_teardown))))
     ELSE Built(GetProp(suiteRun.suite, k_teardown), "teardown")

\* After the last test: the teardown pipeline is built, or runSuite returns.
BuildTeardown ==
  /\ suiteRun.phase = "tests"
  /\ suiteRun.running = "none"
  /\ Len(suiteRun.tests) = Len(GetProp(suiteRun.suite, k_tests).a)
  /\ IF ~HasSteps(GetProp(suiteRun.suite, k_teardown))
     THEN Skipped([suiteRun EXCEPT !.phase = "done", !.success = EveryTestSucceeded])
     ELSE IF BuildError(GetProp(suiteRun.suite, k_teardown)) # Undefined
     THEN Skipped(TeardownThrew(BuildError(GetProp(suiteRun.suite, k_teardown))))
     ELSE Built(GetProp(suiteRun.suite, k_teardown), "teardown")

\* suite.input || {}, testInput and teardownInput
SuiteInput ==
  LET Or(a, b) == IF Truthy(a) THEN a ELSE b
      Test(test) ==
        Obj(Merge(Merge(Spread(GetProp(suiteRun.suite, k_input)), Spread(suiteRun.setupData)),
                  Spread(GetProp(test, k_input))))
  IN CASE suiteRun.running = "setup" -> Or(GetProp(suiteRun.suite, k_input), EmptyObj)
       [] suiteRun.running = "test" ->
            Test(GetProp(suiteRun.suite, k_tests).a[Len(suiteRun.tests) + 1])
       [] OTHER ->
            Obj(Merge(Spread(GetProp(suiteRun.suite, k_input)), Spread(suiteRun.setupData)))

\* await measureTime(() => pipeline.execute(input)), up to the first await of execute
SuiteExecute ==
  /\ suiteRun.running # "none"
  /\ Start(1, SuiteInput, EmptyObj)

\* runSuite goes on after the pipeline returned, or after its promise
\* rejected.
Recorded(next) ==
  /\ suiteRun.running # "none"
  /\ calls[1].pc \in {"done", "rejected"}
  /\ Skipped(next)

\* runSuite going on to the tests whatever the setup returned
AfterSetup_GoOn ==
  /\ suiteRun.running = "setup"
  /\ Recorded([suiteRun EXCEPT !.phase = "tests", !.running = "none",
                               !.setupData = GetProp(calls[1].result, k_data)])

\* part_003 126-139, after the setup pipeline returned
AfterSetup ==
  LET Or(a, b) == IF Truthy(a) THEN a ELSE b
      Kept(result) ==
        IF GetProp(result, k_success) = Bool(TRUE)
        THEN [suiteRun EXCEPT !.phase = "tests", !.running = "none",
                              !.setupData = GetProp(result, k_data)]
        ELSE [suiteRun EXCEPT !.phase = "done", !.running = "none",
                              !.setupData = GetProp(result, k_data), !.success = FALSE,
                              !.setupError = Or(GetProp(result, k_error), Str(s_SetupFailed))]
  IN /\ suiteRun.running = "setup"
     /\ Recorded(IF calls[1].pc = "rejected" THEN SuiteThrew(calls[1].result)
                 ELSE Kept(calls[1].result))

\* part_003 167-190, after the pipeline of a test returned
AfterTest ==
  LET Or(a, b) == IF Truthy(a) THEN a ELSE b
      Pushed(test, i, result) ==
        [suiteRun EXCEPT
           !.running = "none",
           !.tests = Append(@,
             [id |-> Or(GetProp(test, k_id), Str(<<"t", "e", "s", "t", "-">> \o NatToStr(i))),
              success |-> /\ GetProp(result, k_success) = Bool(TRUE)
                          /\ checkAssertions(result, GetProp(test, k_assertions)),
              error |-> Undefined])]
      Done(test) ==
        IF calls[1].pc = "rejected" THEN TestThrew(test, Len(suiteRun.tests), calls[1].result)
        ELSE Pushed(test, Len(suiteRun.tests), calls[1].result)
  IN /\ suiteRun.running = "test"
     /\ Recorded(Done(GetProp(suiteRun.suite, k_tests).a[Len(suiteRun.tests) + 1]))

\* part_003 230-249, after the teardown pipeline returned
AfterTeardown ==
  /\ suiteRun.running = "teardown"
  /\ Recorded(IF calls[1].pc = "rejected" THEN TeardownThrew(calls[1].result)
              ELSE [suiteRun EXCEPT
                      !.phase = "done", !.running = "none", !.success = EveryTestSucceeded,
                      !.teardownResult = Obj1(k_success, GetProp(calls[1].result, k_success))])

NextSuite ==
  \/ BuildSetup \/ BuildTest \/ BuildTeardown
  \/ SuiteExecute \/ Step
  \/ AfterSetup \/ AfterTest \/ AfterTeardown

SpecSuite == InitSuite /\ [][NextSuite]_vars

(***************************************************************************)
(* Units with each form of input specification, with and without a config  *)
(* record next to it.                                                      *)
(***************************************************************************)
s_c == <<"c">>
s_lit == <<"l", "i", "t">>
k_other == <<"o", "t", "h", "e", "r">>

\* The input specifications: '${input.body}', { from: 'input.body', as: 'value' },
\* { value: '${input.body}', other: 'lit' }, and none.
InputSpecs ==
  {Str(s_open \o path_input_body \o <<"}">>),
   FromAs(path_input_body, k_value),
   Obj(Put(Put(<<>>, k_value, Str(s_open \o path_input_body \o <<"}">>)), k_other, Str(s_lit))),
   Undefined}

\* The config records: none, { value: 'c' }, and { body: 'c', extra: 'ignored' }.
ConfigRecords ==
  {Undefined,
   Obj1(k_value, Str(s_c)),
   Obj(Put(Put(<<>>, k_body, Str(s_c)), k_extra, Str(s_ignored)))}

\* new TestBlock({ id: 'a', input, config })
GatherBlock(input, config) ==
  Block("TestBlock", Obj(Put(Put(Put(<<>>, k_id, Str(id_a)), k_input, input), k_config, config)))

GatherCatalogue == {GatherBlock(input, config) : input \in InputSpecs, config \in ConfigRecords}

GatherPipelines == UNION {[1..n -> GatherCatalogue] : n \in 1..MaxBlocks}

InitGather ==
  /\ blocks \in GatherPipelines
  /\ dataBus = <<>>
  /\ context = <<>>
  /\ executionSummary = Null
  /\ calls = [c \in Calls |-> IdleCall]
  /\ queue = <<>>
  /\ template = Undefined
  /\ resolved = NotResolved
  /\ suiteRun = NoSuite
  /\ pathCall = NoPathCall

\* pipeline.execute({ body: '1' })
StartGather == Start(1, Obj1(k_body, Str(<<"1">>)), EmptyObj)

NextGather == StartGather \/ Step

SpecGather == InitGather /\ [][NextGather]_vars

(***************************************************************************)
(* setPath, and a setPath call followed by getPath on the same target.     *)
(***************************************************************************)
k_items == <<"i", "t", "e", "m", "s">>
path_a_b_c == <<"a", ".", "b", ".", "c">>
path_items_1 == <<"i", "t", "e", "m", "s", "[", "1", "]">>
path_items_2 == <<"i", "t", "e", "m", "s", "[", "2", "]">>
path_items_0_id == <<"i", "t", "e", "m", "s", "[", "0", "]", ".", "i", "d">>
path_items_01_id == <<"i", "t", "e", "m", "s", "[", "0", "1", "]", ".", "i", "d">>

\* String(parseInt(k, 10)) === k: the property name k is an array index
IsIndex(k) == AllDigits(k) /\ NatToStr(ParseDigits(k)) = k

\* holder[k] = value in a module (strict mode): the holder after the
\* assignment, or the TypeError of an assignment on a primitive.  An index
\* past the end of an array leaves holes, which read as undefined.
SetProp(holder, k, value) ==
  LET Grown(a, n) ==
        [j \in 1..(IF n + 1 > Len(a) THEN n + 1 ELSE Len(a)) |->
           IF j = n + 1 THEN value ELSE IF j <= Len(a) THEN a[j] ELSE Undefined]
      Props == IF "o" \in DOMAIN holder THEN holder.o ELSE <<>>
  IN CASE holder.t = "object" -> [threw |-> FALSE, value |-> Obj(Put(holder.o, k, value))]
       [] holder.t = "array" ->
            IF IsIndex(k)
            THEN [threw |-> FALSE, value |-> [holder EXCEPT !.a = Grown(holder.a, ParseDigits(k))]]
            ELSE [threw |-> FALSE, value |-> ArrProps(holder.a, Put(Props, k, value))]
       [] OTHER -> [threw |-> TRUE, value |-> Err(s_TypeError)]

\* if (!holder[k]) holder[k] = fresh; current = holder[k]
Child(holder, k, fresh) ==
  IF Truthy(GetProp(holder, k)) THEN [threw |-> FALSE, value |-> GetProp(holder, k)]
  ELSE IF SetProp(holder, k, fresh).threw THEN SetProp(holder, k, fresh)
  ELSE [threw |-> FALSE, value |-> fresh]

RECURSIVE SetAt(_, _, _)
\* The loop and the final assignment of setPath from `current` on: current
\* after them, or the TypeError thrown.  The objects are changed in place in
\* the code; here each changed child is put back into its holder.
SetAt(current, parts, value) ==
  LET Back(holder, k, r) == IF r.threw THEN r ELSE SetProp(holder, k, r.value)
      Then(c, Rest(_)) == IF c.threw THEN c ELSE Rest(c.value)
      LastIndexed(prop, index) ==
        LET Assign(inner) == Back(current, prop, SetProp(inner, NatToStr(ParseDigits(index)), value))
        IN Then(Child(current, prop, Arr(<<>>)), Assign)
      MidIndexed(prop, index) ==
        LET Element(inner) ==
              LET Deeper(element) ==
                    Back(current, prop, Back(inner, index, SetAt(element, Tail(parts), value)))
              IN Then(Child(inner, index, EmptyObj), Deeper)
        IN Then(Child(current, prop, Arr(<<>>)), Element)
      MidPlain(part) ==
        LET Deeper(inner) == Back(current, part, SetAt(inner, Tail(parts), value))
        IN Then(Child(current, part, EmptyObj), Deeper)
      Go(part, p) ==
        IF Len(parts) = 1
        THEN IF p > 0 THEN LastIndexed(SubSeq(part, 1, p - 1), SubSeq(part, p + 1, Len(part) - 1))
             ELSE SetProp(current, part, value)
        ELSE IF p > 0 THEN MidIndexed(SubSeq(part, 1, p - 1), SubSeq(part, p + 1, Len(part) - 1))
             ELSE MidPlain(part)
  IN Go(Head(parts), ArrayMatchPos(Head(parts)))

\* setPath(obj, path, value): obj after the call, or the error thrown
setPath(obj, path, value) ==
  IF path = <<>> THEN [threw |-> FALSE, value |-> obj]
  ELSE SetAt(obj, Split(path, "."), value)

\* The target records: {}, { a: 5 }, { a: { b: 1 } }, { a: null },
\* { items: ['a', 'b', 'c'] } and { items: [{ id: 1 }] }.
PathTargets ==
  {EmptyObj,
   Obj1(key_a, Num(5)),
   Obj1(key_a, Obj1(key_b, Num(1))),
   Obj1(key_a, Null),
   Obj1(k_items, Arr(<<Str(<<"a">>), Str(<<"b">>), Str(<<"c">>)>>)),
   Obj1(k_items, Arr(<<Obj1(k_id, Num(1))>>))}

Paths ==
  {<<>>, key_a, key_a_b, path_a_b_c, path_items_1, path_items_2, path_items_0_id,
   path_items_01_id}

PathValues == {Undefined, Null, Bool(FALSE), Num(1), Str(<<"x">>), Obj1(k_id, Num(2))}

InitPath ==
  /\ \E target \in PathTargets, path \in Paths, value \in PathValues :
       pathCall = [pc |-> "start", target |-> target, path |-> path, value |-> value,
                   thrown |-> Undefined, got |-> Undefined]
  /\ blocks = <<>>
  /\ dataBus = <<>>
  /\ context = <<>>
  /\ executionSummary = Null
  /\ calls = [c \in Calls |-> IdleCall]
  /\ queue = <<>>
  /\ template = Undefined
  /\ resolved = NotResolved
  /\ suiteRun = NoSuite

\* setPath(target, path, value).  A call that throws has changed nothing:
\* the assignment that throws is the first one of the call.
CallSetPath ==
  LET Called(r) ==
        pathCall' = IF r.threw THEN [pathCall EXCEPT !.pc = "threw", !.thrown = r.value]
                    ELSE [pathCall EXCEPT !.pc = "set", !.target = r.value]
  IN /\ pathCall.pc = "start"
     /\ Called(setPath(pathCall.target, pathCall.path, pathCall.value))
     /\ UNCHANGED <<blocks, dataBus, context, executionSummary, calls, queue, template, resolved,
                    suiteRun>>

\* got = getPath(target, path)
CallGetPath ==
  /\ pathCall.pc = "set"
  /\ pathCall' = [pathCall EXCEPT !.pc = "got", !.got = getPath(pathCall.target, pathCall.path)]
  /\ UNCHANGED <<blocks, dataBus, context, executionSummary, calls, queue, template, resolved,
                 suiteRun>>

NextPath == CallSetPath \/ CallGetPath

SpecPath == InitPath /\ [][NextPath]_vars

(***************************************************************************)
(* A unit that is executed again through loop-back after a later unit has  *)
(* rewritten the slot it reads, for each form of output specification.     *)
(***************************************************************************)
id_w == <<"w">>
slot_v == <<"v">>
slot_r == <<"r">>

\* The output specifications: none, 's', and { parsed: 'v', raw: 'r' }.
OutputSpecs ==
  {Undefined, Str(slot_s), Obj(Put(Put(<<>>, k_parsed, Str(slot_v)), k_raw, Str(slot_r)))}

\* { block: 'JsonParser', id: 'a', input: { from: 'input.body', as: 'body' }, output }
ParserA(output) ==
  Block("JsonParser", Obj(Put(Put(Put(<<>>, k_id, Str(id_a)), k_input, FromAs(path_input_body, k_body)),
                              k_output, output)))

\* What slot `input` is rewritten with: { body: '2' } parses, { body: 'x' }
\* gives a soft error, { other: 'lit' } lacks the required body.
RewrittenInputs ==
  {Obj1(k_body, Str(<<"2">>)), Obj1(k_body, Str(<<"x">>)), Obj1(k_other, Str(s_lit))}

\* { block: 'MockData', id: 'w', config: { data }, output: 'input' }
Rewriter(data) == MockStep(id_w, data, Str(k_input))

PassCatalogue ==
  {ParserA(output) : output \in OutputSpecs} \cup {Rewriter(data) : data \in RewrittenInputs}
    \cup {BlockL}

PassPipelines == UNION {[1..n -> PassCatalogue] : n \in 1..MaxBlocks}

InitPasses ==
  /\ blocks \in PassPipelines
  /\ dataBus = <<>>
  /\ context = <<>>
  /\ executionSummary = Null
  /\ calls = [c \in Calls |-> IdleCall]
  /\ queue = <<>>
  /\ template = Undefined
  /\ resolved = NotResolved
  /\ suiteRun = NoSuite
  /\ pathCall = NoPathCall

SpecPasses == InitPasses /\ [][NextGather]_vars

(***************************************************************************)
(* Pipelines whose units signal loops to an id, to an index and to a       *)
(* number that is not an integer.                                          *)
(***************************************************************************)

\* { block: 'MockData', id: 'h', config: { data: { _loopTo: 0.5, _maxLoops: 2 } } }
BlockH ==
  Block("MockData", Obj(Put(Put(<<>>, k_id, Str(id_h)),
                            k_config, Obj1(k_data, LoopSignal(Half(0), 2)))))

CursorCatalogue == {BlockA, BlockB, BlockL, BlockN, BlockH}

CursorPipelines == UNION {[1..n -> CursorCatalogue] : n \in 1..MaxBlocks}

InitCursor ==
  /\ blocks \in CursorPipelines
  /\ dataBus = <<>>
  /\ context = <<>>
  /\ executionSummary = Null
  /\ calls = [c \in Calls |-> IdleCall]
  /\ queue = <<>>
  /\ template = Undefined
  /\ resolved = NotResolved
  /\ suiteRun = NoSuite
  /\ pathCall = NoPathCall

SpecCursor == InitCursor /\ [][NextGather]_vars

(***************************************************************************)
(* resolveValue on strings without a placeholder.                          *)
(***************************************************************************)
key_q == <<"q">>

\* 'X' and 'env.X' can be slot names, 'a' is the slot of the dotted 'a.b',
\* and 'q' names nothing.
PlainStrings == {Str(key_X), Str(key_env_X), Str(key_a), Str(key_a_b), Str(key_q)}

InitPlain ==
  /\ blocks = <<>>
  /\ dataBus \in SlotMaps
  /\ context \in ContextMaps
  /\ executionSummary = Null
  /\ calls = [c \in Calls |-> IdleCall]
  /\ queue = <<>>
  /\ template \in PlainStrings
  /\ resolved = NotResolved
  /\ suiteRun = NoSuite
  /\ pathCall = NoPathCall

SpecPlain == InitPlain /\ [][NextResolve]_vars

(***************************************************************************)
(* A Loop block with a condition, after the unit whose output it reads.    *)
(***************************************************************************)
op_unknown == <<"f", "o", "o">>

Operators ==
  {op_equals, op_notEquals, op_gt, op_gte, op_lt, op_lte, op_contains, op_notContains,
   op_minLength, op_maxLength, op_matches, op_notMatches} \cup noValueOperators

\* The values at the condition's path: absent, null, booleans, numbers,
\* strings, arrays and records.
Actuals ==
  {Undefined, Null, Bool(TRUE), Bool(FALSE), Num(0), Num(1), Str(<<>>), Str(<<"a", "b">>),
   Arr(<<>>), Arr(<<Str(<<"a", "b">>), Num(1)>>), EmptyObj, Obj1(k_id, Num(1))}

\* The condition's value: absent, the falsy operands, and others.
Operands == {Undefined, Num(0), Bool(FALSE), Str(<<>>), Null, Num(1), Str(<<"a">>)}

\* { path, operator, value }, without the fields that are undefined
Condition(path, operator, value) ==
  LET With(o, k, v) == IF v = Undefined THEN o ELSE Put(o, k, v)
  IN Obj(With(With(With(<<>>, k_path, path), k_operator, operator), k_value, value))

\* No condition, every operator (and an unknown one) with every operand on
\* the path 'count', and conditions without path or operator.
Conditions ==
  {Undefined}
    \cup {Condition(Str(k_count), Str(operator), value) :
            operator \in Operators \cup {op_unknown}, value \in Operands}
    \cup {Condition(Undefined, Str(op_equals), Num(1)), Condition(Str(k_count), Undefined, Num(1))}

\* { block: 'MockData', id: 'a', config: { data: { count: actual } } }
CountStep(actual) ==
  MockStep(id_a, IF actual = Undefined THEN EmptyObj ELSE Obj1(k_count, actual), Undefined)

\* new Loop({ id: 'l', input: { from: 'a' }, target: 'a', maxIterations, condition })
LoopIf(maxIterations, condition) ==
  LET With(o, k, v) == IF v = Undefined THEN o ELSE Put(o, k, v)
  IN Block("Loop",
           Obj(With(With(Put(Put(Put(<<>>, k_id, Str(id_l)), k_input, Obj1(k_from, Str(id_a))),
                             k_target, Str(id_a)),
                         k_maxIterations, maxIterations),
                    k_condition, condition)))

LoopLimits == {Undefined, Num(1)}

\* { block: 'MockData', id: 'a', config: { data: { count: 1, _loopTo: 'a',
\* _maxLoops: 1 } } }: the Loop block's inputs carry the keys of a signal.
\* At index 0 the step's own signal names no earlier unit and is ignored.
CarryStep ==
  MockStep(id_a, Obj(Put(Put(Put(<<>>, k_count, Num(1)), k_loopTo, Str(id_a)), k_maxLoops, Num(1))),
           Undefined)

LoopPipelines ==
  {<<CountStep(actual), LoopIf(maxIterations, condition)>> :
     actual \in Actuals, maxIterations \in LoopLimits, condition \in Conditions}
    \cup {<<CarryStep, LoopIf(maxIterations, condition)>> :
            maxIterations \in LoopLimits,
            condition \in {Undefined, Condition(Str(k_count), Str(op_equals), Num(1)),
                           Condition(Str(k_count), Str(op_equals), Num(0))}}

InitLoop ==
  /\ blocks \in LoopPipelines
  /\ dataBus = <<>>
  /\ context = <<>>
  /\ executionSummary = Null
  /\ calls = [c \in Calls |-> IdleCall]
  /\ queue = <<>>
  /\ template = Undefined
  /\ resolved = NotResolved
  /\ suiteRun = NoSuite
  /\ pathCall = NoPathCall

SpecLoop == InitLoop /\ [][NextGather]_vars

(***************************************************************************)
(* Notions the properties are stated with.                                 *)
(***************************************************************************)
Last(seq) == seq[Len(seq)]

\* The cursor positions executed by a call, in order (0-based).
ExecIndices(trace) ==
  LET execs == SelectSeq(trace, LAMBDA e : e.ev = "exec")
  IN [k \in 1..Len(execs) |-> execs[k].index]

ResultOf(c) == calls[c].result
SuccessOf(c) == GetProp(calls[c].result, k_success)
ErrorOf(c) == GetProp(calls[c].result, k_error)
DataOf(c) == GetProp(calls[c].result, k_data)

\* Call c is resumed by this step.
Resumed(c) == calls[c].pc = "awaiting" /\ calls'[c] # calls[c]

\* The awaited unit of call c threw (a fault), returned a soft error, or succeeded.
PendingFault(c) == Truthy(calls[c].pending.error)
PendingSoftError(c) ==
  /\ ~PendingFault(c)
  /\ ~IsNullish(calls[c].pending.result)
  /\ Truthy(GetProp(calls[c].pending.result, k_error))
PendingSuccess(c) == ~PendingFault(c) /\ ~PendingSoftError(c)

\* The output-storage rule: where the output of a block is to be found.
StoredUnderRule(slots, block, output) ==
  LET out == GetProp(block.config, k_output)
  IN CASE out.t = "undefined" -> SlotsGet(slots, block.id) = output
       [] out.t = "string" -> SlotsGet(slots, out.s) = output
       [] out.t = "object" ->
            \A key \in DOMAIN out.o :
              GetProp(output, key) # Undefined => SlotsGet(slots, ToStr(out.o[key])) = GetProp(output, key)
       [] OTHER -> TRUE

\* The message of a thrown value: error.message, or the value itself.
MessageOf(error) ==
  IF error.t = "error" /\ error.message # <<>> THEN Str(error.message) ELSE error

\* The unit a _loopTo value names: a number is an index, a string the first
\* block with that id; -1 when there is none.
TargetOf(loopTo) ==
  CASE loopTo.t = "number" -> loopTo.n
    [] loopTo.t = "string" ->
         IF \E k \in 1..Len(blocks) : blocks[k].id = loopTo.s
         THEN (CHOOSE k \in 1..Len(blocks) :
                 blocks[k].id = loopTo.s /\ \A j \in 1..(k - 1) : blocks[j].id # loopTo.s) - 1
         ELSE -1
    [] OTHER -> -1

\* The output a MockData block gives on every execution.
DataOfMock(block) == GetProp(GetProp(block.config, k_config), k_data)

\* The block signals _loopTo on every execution.
SignalsLoop(block) == block.kind = "MockData" /\ GetProp(DataOfMock(block), k_loopTo) # Undefined

\* The block always succeeds and never ends the run.
Benign(block) ==
  \/ block.kind = "TestBlock"
  \/ block.kind = "MockData" /\ ~Truthy(GetProp(DataOfMock(block), k_terminate))
                             /\ ~Truthy(GetProp(DataOfMock(block), k_error))

(***************************************************************************)
(* C1: with continueOnError truthy in the Context, a unit that throws      *)
(* during process does not halt execute(): the unit after it is still      *)
(* executed, and the final result has success === false.                   *)
(***************************************************************************)
C1_ContinueOnError ==
  \A c \in Calls :
    (calls[c].pc = "done" /\ Truthy(Context_get(context, k_continueOnError))) =>
      \A k \in 1..Len(calls[c].trace) :
        LET e == calls[c].trace[k]
        IN e.ev = "throw" =>
             /\ SuccessOf(c) = Bool(FALSE)
             /\ (e.index + 1 < Len(blocks) =>
                   \E j \in (k + 1)..Len(calls[c].trace) :
                     calls[c].trace[j] = [ev |-> "exec", index |-> e.index + 1])

(***************************************************************************)
(* C2: when a unit returns an output whose error field is truthy,          *)
(* execute() stores that output under the unit's output-storage rule,      *)
(* returns success === false with error equal to the output's error value, *)
(* and executes no later unit, whether or not continueOnError is set.      *)
(***************************************************************************)
C2_SoftErrorHalts ==
  [][\A c \in Calls :
       (Resumed(c) /\ PendingSoftError(c)) =>
         LET output == calls[c].pending.result
             block == blocks[calls[c].i + 1]
         IN /\ calls'[c].pc = "done"
            /\ StoredUnderRule(dataBus', block, output)
            /\ GetProp(calls'[c].result, k_success) = Bool(FALSE)
            /\ GetProp(calls'[c].result, k_error) = GetProp(output, k_error)
            /\ calls'[c].trace = calls[c].trace]_vars

C2_Witness ==
  \E c \in Calls :
    /\ calls[c].pc = "done"
    /\ Truthy(Context_get(context, k_continueOnError))
    /\ calls[c].i + 1 < Len(blocks)
    /\ blocks[calls[c].i + 1] = BlockP
    /\ Truthy(GetProp(SlotsGet(dataBus, id_p), k_error))
    /\ ErrorOf(c) = GetProp(SlotsGet(dataBus, id_p), k_error)
    /\ SuccessOf(c) = Bool(FALSE)

(***************************************************************************)
(* C3: when a unit throws (from input validation or from process) and      *)
(* continueOnError is not set, execute() executes no later unit and        *)
(* returns a result whose success is false and whose error is the fault's  *)
(* message; the outputs stored by earlier units remain in data.            *)
(***************************************************************************)
C3_FaultHalts ==
  [][\A c \in Calls :
       (Resumed(c) /\ PendingFault(c) /\ ~Truthy(Context_get(context, k_continueOnError))) =>
         LET U == blocks[calls[c].i + 1]
             data == GetProp(calls'[c].result, k_data)
         IN /\ calls'[c].pc = "done"
            /\ calls'[c].trace = calls[c].trace
            /\ GetProp(calls'[c].result, k_success) = Bool(FALSE)
            /\ GetProp(calls'[c].result, k_error) = MessageOf(calls[c].pending.error)
            /\ \A slot \in (DOMAIN dataBus) \ {slot_error, slot_meta \o U.id} :
                 HasKey(data, slot) /\ GetProp(data, slot) = dataBus[slot]]_vars

C3_Witness ==
  \E c \in Calls :
    /\ calls[c].pc = "done"
    /\ ~Truthy(Context_get(context, k_continueOnError))
    /\ calls[c].i >= 1
    /\ calls[c].i + 1 < Len(blocks)
    /\ Last(calls[c].trace) = [ev |-> "throw", index |-> calls[c].i]
    /\ ErrorOf(c) = Str(s_TestError)
    /\ SuccessOf(c) = Bool(FALSE)
    /\ HasKey(DataOf(c), id_a)

(***************************************************************************)
(* Loops, as they show in the positions a call has executed.               *)
(***************************************************************************)
\* The number of times position u (0-based) was executed, up to entry k.
Occurrences(ex, u, k) == Cardinality({j \in 1..k : ex[j] = u})

\* The number of times the execution of position u was followed by that of t.
Jumps(ex, u, t) == Cardinality({j \in 1..(Len(ex) - 1) : ex[j] = u /\ ex[j + 1] = t})

LoopToOf(block) == GetProp(DataOfMock(block), k_loopTo)
MaxLoopsGiven(block) == GetProp(DataOfMock(block), k_maxLoops)

\* The block at position u (0-based) signals, on every execution, a loop to
\* an earlier unit with a limit that is a natural number.
LoopUnit(u) ==
  /\ SignalsLoop(blocks[u + 1])
  /\ Benign(blocks[u + 1])
  /\ TargetOf(LoopToOf(blocks[u + 1])) \in 0..(u - 1)
  /\ MaxLoopsGiven(blocks[u + 1]).t = "number"
  /\ MaxLoopsGiven(blocks[u + 1]).n \in Nat

\* No other unit of the pipeline signals a loop with the same _loopTo value.
SoleSignaller(u) ==
  \A v \in 0..(Len(blocks) - 1) :
    (v # u /\ SignalsLoop(blocks[v + 1])) => LoopToOf(blocks[v + 1]) # LoopToOf(blocks[u + 1])

DistinctIds == \A j, k \in 1..Len(blocks) : blocks[j].id = blocks[k].id => j = k

AllBenign == \A k \in 1..Len(blocks) : Benign(blocks[k])

NoFailureRecorded(c) ==
  /\ executionSummary.failed = 0
  /\ ~executionSummary.hasErrors
  /\ ~DataBus_has(dataBus, slot_error)
  /\ SuccessOf(c) = Bool(TRUE)

(***************************************************************************)
(* C4, as stated: on a fresh Pipeline, a unit that signals _loopTo: T with *)
(* _maxLoops: N on every execution (T an earlier unit) causes exactly N    *)
(* backward jumps to T.                                                    *)
(***************************************************************************)
C4_ExactlyN_AnyUnit ==
  \A c \in Calls :
    (calls[c].pc = "done" /\ AllBenign /\ DistinctIds) =>
      \A u \in 0..(Len(blocks) - 1) :
        LoopUnit(u) =>
          Jumps(ExecIndices(calls[c].trace), u, TargetOf(LoopToOf(blocks[u + 1])))
            = MaxLoopsGiven(blocks[u + 1]).n

(***************************************************************************)
(* C4, amended: on a fresh Pipeline, a unit U that signals _loopTo: T with *)
(* _maxLoops: N (a natural number) on every execution, T an earlier unit,  *)
(* and that is the only unit signalling that _loopTo value, jumps back to  *)
(* T on each of its first N executions and on no later one; every later    *)
(* execution of U is followed by the unit after U (or by the end of the    *)
(* run), and when no unit of the pipeline fails or terminates the run has  *)
(* exactly N jumps from U to T and records no failure.                     *)
(***************************************************************************)
C4_LoopLimit ==
  \A c \in Calls :
    calls[c].pc = "done" =>
      \A u \in 0..(Len(blocks) - 1) :
        (LoopUnit(u) /\ SoleSignaller(u)) =>
          LET ex == ExecIndices(calls[c].trace)
              T == TargetOf(LoopToOf(blocks[u + 1]))
              N == MaxLoopsGiven(blocks[u + 1]).n
          IN /\ Jumps(ex, u, T) <= N
             /\ \A k \in 1..Len(ex) :
                  ex[k] = u =>
                    IF Occurrences(ex, u, k) <= N
                    THEN k < Len(ex) /\ ex[k + 1] = T
                    ELSE IF k < Len(ex) THEN ex[k + 1] = u + 1 ELSE u + 1 = Len(blocks)
             /\ AllBenign => (Jumps(ex, u, T) = N /\ NoFailureRecorded(c))

C4_Witness ==
  /\ blocks = <<BlockA, BlockL, BlockB>>
  /\ calls[1].pc = "done"
  /\ ExecIndices(calls[1].trace) = <<0, 1, 0, 1, 0, 1, 2>>
  /\ Context_get(context, key_loopCount \o id_a) = Num(2)
  /\ NoFailureRecorded(1)

Lacks(inputs, name) ==
  \/ inputs.t # "object"
  \/ name \notin DOMAIN inputs.o
  \/ inputs.o[name] = Undefined

MissingNames(block, inputs) ==
  {Required(block.kind)[k] : k \in {j \in 1..Len(Required(block.kind)) : Lacks(inputs, Required(block.kind)[j])}}

Quoted(id) == <<"'">> \o id \o <<"'">>

C7_MissingRequiredHalts ==
  [][\A c \in Calls :
       LET i == calls[c].i
           block == blocks[i + 1]
           missing == MissingNames(block, calls[c].inputs)
           error == GetProp(calls'[c].result, k_error)
       IN (Resumed(c) /\ missing # {}) =>
            /\ Last(calls[c].trace) = [ev |-> "exec", index |-> i]
            /\ calls'[c].trace = calls[c].trace
            /\ calls'[c].pc = "done"
            /\ GetProp(calls'[c].result, k_success) = Bool(FALSE)
            /\ error.t = "string"
            /\ Includes(error.s, Quoted(block.id))
            /\ \A name \in missing : Includes(error.s, name)]_vars

C7_Witness ==
  \E c \in Calls :
    /\ calls[c].pc = "done"
    /\ calls[c].i + 1 < Len(blocks)
    /\ blocks[calls[c].i + 1] = BlockR
    /\ Last(calls[c].trace) = [ev |-> "exec", index |-> calls[c].i]
    /\ SuccessOf(c) = Bool(FALSE)
    /\ ErrorOf(c) = Str(s_BlockQ \o id_r \o s_missing \o k_input1 \o <<",", " ">> \o k_input2)

(***************************************************************************)
(* C8: within one execute() call, the output and the _meta entry of the    *)
(* unit executed at step N are in the Slot Store when the inputs of the    *)
(* next executed unit are gathered: the inputs the next unit is executed   *)
(* with are those gathered from the store that holds them.                 *)
(***************************************************************************)
C8_StoredBeforeNextGather ==
  [][\A c \in Calls :
       (Resumed(c) /\ PendingSuccess(c) /\ calls'[c].pc = "awaiting") =>
         LET block == blocks[calls[c].i + 1]
             output == calls[c].pending.result
             next == blocks[calls'[c].i + 1]
             after == [dataBus |-> dataBus', context |-> context',
                       executionSummary |-> executionSummary']
         IN /\ Truthy(output) => StoredUnderRule(dataBus', block, output)
            /\ SlotsGet(dataBus', slot_meta \o block.id) = Obj(Put(<<>>, k_success, Bool(TRUE)))
            /\ calls'[c].inputs = gatherInputs(after, next).value]_vars

C8_Witness ==
  \E c \in Calls :
    /\ blocks = <<BlockA, BlockB>>
    /\ calls[c].pc = "awaiting"
    /\ calls[c].i = 1
    /\ calls[c].input = Obj1(k_body, Str(<<"x">>))
    /\ SlotsGet(dataBus, id_a) = Obj1(k_result, Str(<<"x">>))
    /\ calls[c].inputs = Obj1(k_value, Str(<<"x">>))

(***************************************************************************)
(* C9: after a run halted by a failing unit U (thrown fault or soft        *)
(* error), the returned data contains _error with the failure message and  *)
(* _meta.<U.id> with success: false and the error text, and the last entry *)
(* of the summary's per-unit results names U with success: false.          *)
(***************************************************************************)
C9_FailureRecorded ==
  [][\A c \in Calls :
       (Resumed(c) /\ (PendingFault(c) \/ PendingSoftError(c))) =>
         LET U == blocks[calls[c].i + 1]
             message == IF PendingFault(c) THEN MessageOf(calls[c].pending.error)
                        ELSE GetProp(calls[c].pending.result, k_error)
             data == GetProp(calls'[c].result, k_data)
             results == executionSummary'.blockResults
         IN /\ calls'[c].pc = "done"
            /\ GetProp(data, slot_error) = message
            /\ GetProp(data, slot_meta \o U.id) =
                 Obj(Put(Put(<<>>, k_success, Bool(FALSE)), k_error, message))
            /\ Len(results) > 0
            /\ Last(results).id = U.id
            /\ Last(results).success = FALSE]_vars

C9_Witness ==
  \E c \in Calls :
    /\ blocks = <<BlockA, BlockP, BlockB>>
    /\ calls[c].pc = "done"
    /\ calls[c].i = 1
    /\ GetProp(DataOf(c), slot_error) = Str(s_JsonError \o s_Unexpected)
    /\ GetProp(GetProp(DataOf(c), slot_meta \o id_p), k_success) = Bool(FALSE)
    /\ Last(executionSummary.blockResults).id = id_p

(***************************************************************************)
(* C6: when several execute() calls are started on the same Pipeline       *)
(* without awaiting one before starting the next, every call resolves with *)
(* success === true and with data holding the unit outputs computed from   *)
(* that call's own initial input, that is, the outputs the pipeline gives  *)
(* when it is executed alone on that input.                                *)
(***************************************************************************)
\* The result of execute(input) on a new pipeline of the same blocks.
AloneResult(input) ==
  RunToEnd(blocks, ExecuteStart([dataBus |-> <<>>, context |-> <<>>, executionSummary |-> Null],
                                blocks, input, EmptyObj)).result

\* The slots units write their outputs to.
OutputSlots(data) == {slot \in DOMAIN data.o : slot # k_input /\ slot[1] # "_"}

C6_OverlappingCallsIsolated ==
  \A c \in Calls :
    (calls[c].pc = "done" /\ DistinctIds) =>
      LET alone == GetProp(AloneResult(calls[c].input), k_data)
      IN /\ SuccessOf(c) = Bool(TRUE)
         /\ OutputSlots(DataOf(c)) = OutputSlots(alone)
         /\ \A slot \in OutputSlots(alone) : GetProp(DataOf(c), slot) = GetProp(alone, slot)

(***************************************************************************)
(* C10, as stated: for every key that has a defined value in both Context  *)
(* and Slot Store, resolveValue('${key}') returns the Context value and    *)
(* each ${key} occurrence inside a longer template is replaced by the      *)
(* Context value.                                                          *)
(***************************************************************************)
DefinedInBoth(key) ==
  Context_get(context, key) # Undefined /\ DataBus_get(dataBus, key) # Undefined

RECURSIVE WithContextValues(_)
WithContextValues(keys) ==
  IF Len(keys) = 1 THEN <<"<">> \o ToStr(Context_get(context, keys[1]))
  ELSE WithContextValues(SubSeq(keys, 1, Len(keys) - 1)) \o <<"/">>
         \o ToStr(Context_get(context, keys[Len(keys)]))

PlainKey(key) == ~StartsWith(key, s_env)

Substitute(key) ==
  IF Context_get(context, key) # Undefined THEN ToStr(Context_get(context, key))
  ELSE IF DataBus_get(dataBus, key) # Undefined THEN ToStr(DataBus_get(dataBus, key))
  ELSE Placeholder(key)

RECURSIVE Expected(_)
Expected(keys) ==
  IF Len(keys) = 1 THEN <<"<">> \o Substitute(keys[1])
  ELSE Expected(SubSeq(keys, 1, Len(keys) - 1)) \o <<"/">> \o Substitute(keys[Len(keys)])

Found(key) ==
  IF StartsWith(key, s_env) THEN Context_get(context, Substring(key, 4))
  ELSE IF Context_get(context, key) # Undefined THEN Context_get(context, key)
  ELSE DataBus_get(dataBus, key)

Matched(key) == Found(key) # Undefined

RECURSIVE Filled(_)
Filled(keys) ==
  LET One(key) == IF Matched(key) THEN ToStr(Found(key)) ELSE Placeholder(key)
  IN IF Len(keys) = 1 THEN <<"<">> \o One(keys[1])
     ELSE Filled(SubSeq(keys, 1, Len(keys) - 1)) \o <<"/">> \o One(keys[Len(keys)])

HasMapping(block) == GetProp(block.config, k_output).t = "object"

\* The fields of the mapping that are defined in the output.
MappedFields(block, output) ==
  {key \in DOMAIN GetProp(block.config, k_output).o : GetProp(output, key) # Undefined}

SlotNamed(block, key) == ToStr(GetProp(block.config, k_output).o[key])

C12_MappedSlotsOnly ==
  [][\A c \in Calls :
       LET block == blocks[calls[c].i + 1]
           output == calls[c].pending.result
       IN (Resumed(c) /\ ~PendingFault(c) /\ HasMapping(block)) =>
            LET fields == MappedFields(block, output)
                written == {SlotNamed(block, key) : key \in fields}
                after == storeOutput(Machine, block, output).dataBus
            IN /\ DOMAIN after = (DOMAIN dataBus) \cup written
               /\ \A slot \in (DOMAIN dataBus) \ written : after[slot] = dataBus[slot]
               /\ \A key \in fields :
                    (\A other \in fields : SlotNamed(block, other) = SlotNamed(block, key) => other = key)
                      => after[SlotNamed(block, key)] = GetProp(output, key)
               /\ block.id \notin written => SlotsGet(after, block.id) = SlotsGet(dataBus, block.id)
               /\ DOMAIN after \subseteq DOMAIN dataBus'
               /\ \A slot \in (DOMAIN dataBus') \ {slot_meta \o block.id, slot_error} :
                    slot \in DOMAIN after /\ dataBus'[slot] = after[slot]]_vars

C12_Witness ==
  /\ blocks = <<BlockU, BlockV, BlockX>>
  /\ calls[1].pc = "done"
  /\ calls[1].i = 3
  /\ SlotsGet(dataBus, k_data) = Obj1(k_value, Num(42))
  /\ SlotsGet(dataBus, slot_parseError) = Null
  /\ slot_parseError \in DOMAIN dataBus
  /\ k_extra \notin DOMAIN dataBus
  /\ SlotsGet(dataBus, id_x) = Obj1(k_raw, Num(1))

(***************************************************************************)
(* C13: when a successfully executed unit's output has a truthy            *)
(* _terminate, its output is stored and it is counted as succeeded, no     *)
(* later unit is executed, and the result's success is true.               *)
(***************************************************************************)
C13_TerminateStopsSuccessfully ==
  [][\A c \in Calls :
       LET block == blocks[calls[c].i + 1]
           output == calls[c].pending.result
       IN (/\ Resumed(c) /\ PendingSuccess(c)
           /\ Truthy(output) /\ Truthy(GetProp(output, k_terminate))) =>
            /\ calls'[c].pc = "done"
            /\ calls'[c].trace = calls[c].trace
            /\ StoredUnderRule(dataBus', block, output)
            /\ executionSummary'.executed = executionSummary.executed + 1
            /\ executionSummary'.succeeded = executionSummary.succeeded + 1
            /\ executionSummary'.failed = executionSummary.failed
            /\ Last(executionSummary'.blockResults).id = block.id
            /\ Last(executionSummary'.blockResults).success
            /\ context' = context
            /\ GetProp(calls'[c].result, k_success) = Bool(TRUE)]_vars

C13_Witness ==
  /\ blocks = <<BlockA, BlockT1, BlockB>>
  /\ calls[1].pc = "done"
  /\ ExecIndices(calls[1].trace) = <<0, 1>>
  /\ SlotsGet(dataBus, id_u) = DataOfMock(BlockT1)
  /\ executionSummary.succeeded = 2
  /\ SuccessOf(1) = Bool(TRUE)

(***************************************************************************)
(* C14: an accepted backward jump increments only the counter              *)
(* `_loopCount:<_loopTo as given>` by exactly one; the counters of other   *)
(* targets and every other Context key are unchanged, and nothing else in  *)
(* a run changes the Context, so loops to different targets are limited    *)
(* independently of each other.                                            *)
(***************************************************************************)
CounterKey(loopTo) == key_loopCount \o ToStr(loopTo)

CounterOf(ctx, loopTo) == IF CounterKey(loopTo) \in DOMAIN ctx THEN ctx[CounterKey(loopTo)].n ELSE 0

\* The resumption of call c jumps back to the unit its output names.
JumpsBack(c) ==
  LET output == calls[c].pending.result
  IN /\ Resumed(c) /\ PendingSuccess(c)
     /\ Truthy(output) /\ ~Truthy(GetProp(output, k_terminate))
     /\ GetProp(output, k_loopTo) # Undefined
     /\ TargetOf(GetProp(output, k_loopTo)) \in 0..(calls[c].i - 1)
     /\ calls'[c].i = TargetOf(GetProp(output, k_loopTo))

C14_OnlyOwnCounter ==
  [][\A c \in Calls :
       Resumed(c) =>
         IF JumpsBack(c)
         THEN LET loopTo == GetProp(calls[c].pending.result, k_loopTo)
              IN /\ CounterOf(context', loopTo) = CounterOf(context, loopTo) + 1
                 /\ DOMAIN context' = (DOMAIN context) \cup {CounterKey(loopTo)}
                 /\ \A key \in (DOMAIN context) \ {CounterKey(loopTo)} : context'[key] = context[key]
         ELSE context' = context]_vars

C14_Witness ==
  /\ blocks = <<BlockA, BlockL, BlockN>>
  /\ calls[1].pc = "done"
  /\ ExecIndices(calls[1].trace) = <<0, 1, 0, 1, 0, 1, 2, 1, 2>>
  /\ CounterOf(context, Str(id_a)) = 2
  /\ CounterOf(context, Num(1)) = 1
  /\ Truthy(Context_get(context, k_continueOnError))

(***************************************************************************)
(* C15: in a pipeline built by PipelineBuilder.fromJSON that contains      *)
(* {block: 'Loop', config: {target: T, maxIterations: N}} after an earlier *)
(* unit with id T, the Loop block loops back: the units from T up to the   *)
(* Loop block are re-executed N times before the pipeline proceeds past    *)
(* the Loop block.  (Stated for a Loop block that is the only one of the   *)
(* pipeline to name T.)                                                    *)
(***************************************************************************)
\* The target and the limit a Loop step is defined with, under `config`.
ConfiguredTarget(block) == GetProp(GetProp(block.config, k_config), k_target)
ConfiguredMax(block) == GetProp(GetProp(block.config, k_config), k_maxIterations)

\* The id a Loop block names as its target, whichever way it is defined.
NamedTarget(block) ==
  IF ConfiguredTarget(block) # Undefined THEN ConfiguredTarget(block) ELSE GetProp(block.config, k_target)

ConfiguredLoop(u) ==
  /\ blocks[u + 1].kind = "Loop"
  /\ ConfiguredTarget(blocks[u + 1]).t = "string"
  /\ TargetOf(ConfiguredTarget(blocks[u + 1])) \in 0..(u - 1)
  /\ ConfiguredMax(blocks[u + 1]).t = "number"
  /\ \A v \in 0..(Len(blocks) - 1) :
       (v # u /\ blocks[v + 1].kind = "Loop") => NamedTarget(blocks[v + 1]) # ConfiguredTarget(blocks[u + 1])

C15_BuiltLoopRepeats ==
  \A c \in Calls :
    calls[c].pc = "done" =>
      \A u \in 0..(Len(blocks) - 1) :
        ConfiguredLoop(u) =>
          LET ex == ExecIndices(calls[c].trace)
              T == TargetOf(ConfiguredTarget(blocks[u + 1]))
              N == ConfiguredMax(blocks[u + 1]).n
          IN /\ Jumps(ex, u, T) = N
             /\ Occurrences(ex, u, Len(ex)) = N + 1
             /\ Occurrences(ex, T, Len(ex)) = N + 1

(***************************************************************************)
(* C16: the result of execute() has success === true exactly when no unit  *)
(* executed during that call failed (no thrown fault and no soft error),   *)
(* and its data and context are the complete Slot Store and Context as     *)
(* they are at completion.                                                 *)
(***************************************************************************)
\* Call c returns in this step.
Finishing(c) == calls[c].pc # "done" /\ calls'[c].pc = "done"

\* A unit of call c fails in this step.  (A failure ends the call, so no
\* earlier step of the call had one.)
FailsNow(c) == Resumed(c) /\ (PendingFault(c) \/ PendingSoftError(c))

C16_ResultReflectsRun ==
  [][\A c \in Calls :
       Finishing(c) =>
         /\ GetProp(calls'[c].result, k_success) = Bool(~FailsNow(c))
         /\ ~FailsNow(c) <=>
              \A k \in 1..Len(executionSummary'.blockResults) : executionSummary'.blockResults[k].success
         /\ GetProp(calls'[c].result, k_data) = Obj(dataBus')
         /\ GetProp(calls'[c].result, k_contextKey) = Obj(context')
         /\ DOMAIN calls'[c].result.o \subseteq {k_data, k_contextKey, k_success, k_error}]_vars

C16_Witness ==
  /\ blocks = <<BlockA, BlockB>>
  /\ calls[1].pc = "done"
  /\ calls[2].pc = "done"
  /\ calls[1].input = Obj1(k_body, Str(<<"x">>))
  /\ calls[2].input = Obj1(k_body, Str(<<"1">>))
  /\ SuccessOf(2) = Bool(TRUE)
  /\ DataOf(2) = Obj(dataBus)
  /\ GetProp(DataOf(2), slot_s) = Obj1(k_result, Str(<<"1">>))
  /\ GetProp(ResultOf(2), k_contextKey) = Obj(context)
  /\ Context_get(context, key_X) = Num(7)

(***************************************************************************)
(* C17: each execute() call starts with a new summary whose executed,      *)
(* succeeded and failed counters are 0 and whose per-unit result list is   *)
(* empty, while every Slot Store slot and Context key left by a previous   *)
(* execute() on the same Pipeline is kept (only the input slot is          *)
(* overwritten, when an input is given, and the keys of initialContext are *)
(* merged in).                                                             *)
(***************************************************************************)
\* Call c is made in this step.
Starting(c) == calls[c].pc = "idle" /\ calls'[c].pc # "idle"

C17_NewSummaryKeptState ==
  [][\A c \in Calls :
       Starting(c) =>
         LET input == calls'[c].input
             given == calls'[c].initialContext
         IN /\ executionSummary'.executed = 0
            /\ executionSummary'.succeeded = 0
            /\ executionSummary'.failed = 0
            /\ executionSummary'.blockResults = <<>>
            /\ ~executionSummary'.hasErrors
            /\ executionSummary'.totalBlocks = Len(blocks)
            /\ DOMAIN dataBus' = (DOMAIN dataBus) \cup (IF Truthy(input) THEN {k_input} ELSE {})
            /\ \A slot \in DOMAIN dataBus : (slot # k_input \/ ~Truthy(input)) => dataBus'[slot] = dataBus[slot]
            /\ Truthy(input) => dataBus'[k_input] = input
            /\ DOMAIN context' = (DOMAIN context) \cup (DOMAIN given.o)
            /\ \A key \in DOMAIN context' :
                 context'[key] = IF key \in DOMAIN given.o THEN given.o[key] ELSE context[key]]_vars

C17_Witness ==
  /\ blocks = <<BlockA, BlockL, BlockE>>
  /\ calls[1].pc = "done"
  /\ calls[2].pc = "awaiting"
  /\ calls[2].i = 0
  /\ ExecIndices(calls[2].trace) = <<0>>
  /\ executionSummary = NewSummary(blocks)
  /\ slot_error \in DOMAIN dataBus
  /\ id_a \in DOMAIN dataBus
  /\ Context_get(context, key_loopCount \o id_a) = Num(2)
  /\ calls[1].initialContext = Obj1(key_X, Num(5))
  /\ calls[2].initialContext = Obj1(key_X, Num(7))
  /\ Context_get(context, key_X) = Num(7)

(***************************************************************************)
(* C18: in a suite, a slot written by a setup block (output: 'setupData')  *)
(* is readable in every test pipeline and in the teardown pipeline under   *)
(* the same slot name, as in ${setupData.body.id}.                         *)
(***************************************************************************)
\* The slots the setup pipeline wrote its outputs to.
SetupSlots == OutputSlots(suiteRun.setupData)

\* A test pipeline or the teardown pipeline is executed after a setup.
RanAfterSetup ==
  /\ suiteRun # NoSuite
  /\ suiteRun.running \in {"test", "teardown"}
  /\ calls[1].pc # "idle"
  /\ HasSteps(GetProp(suiteRun.suite, k_setup))

C18_SetupSlotsReadable ==
  RanAfterSetup =>
    \A slot \in SetupSlots :
      DataBus_get(dataBus, slot) = GetProp(suiteRun.setupData, slot)

(***************************************************************************)
(* C19: the input record passed to a unit is the gathered input (a string  *)
(* specification gives {body: value}, {from, as} gives {[as]: slot value}, *)
(* a plain record is deep-resolved, no specification gives the whole Slot  *)
(* Store) with the step's config record shallow-merged on top, so that a   *)
(* config key always overrides a gathered key of the same name.            *)
(***************************************************************************)
\* The gathered input of each form of specification.
GatheredFrom(input) ==
  IF input = Undefined THEN Obj(dataBus)
  ELSE IF input.t = "string" THEN Obj1(k_body, resolveValue(Machine, input))
  ELSE IF HasKey(input, k_from)
  THEN Obj1(GetProp(input, k_as).s, DataBus_get(dataBus, GetProp(input, k_from).s))
  ELSE Obj([k \in DOMAIN input.o |-> deepResolve(Machine, input.o[k])])

\* record has the keys of config with config's values, and the other keys
\* of gathered with gathered's values.
Overlaid(record, gathered, config) ==
  /\ record.t = "object"
  /\ DOMAIN record.o = (DOMAIN gathered.o) \cup (DOMAIN config)
  /\ \A k \in DOMAIN config : record.o[k] = config[k]
  /\ \A k \in (DOMAIN gathered.o) \ (DOMAIN config) : record.o[k] = gathered.o[k]

\* The config record of a unit, empty when the step has none.
ConfigOf(block) ==
  IF GetProp(block.config, k_config) = Undefined THEN <<>> ELSE GetProp(block.config, k_config).o

C19_ConfigOverGathered ==
  \A c \in Calls :
    calls[c].pc = "awaiting" =>
      LET block == blocks[calls[c].i + 1]
      IN /\ Overlaid(calls[c].inputs, GatheredFrom(GetProp(block.config, k_input)), ConfigOf(block))
         /\ calls[c].pending = measureTime(BlockExecute(block, calls[c].inputs))

\* The second unit takes `value` from slot input.body and its config sets
\* `value`; the third has no specification and its config sets body and extra.
C19_Witness ==
  /\ blocks = <<GatherBlock(Str(s_open \o path_input_body \o <<"}">>), Undefined),
                GatherBlock(FromAs(path_input_body, k_value), Obj1(k_value, Str(s_c))),
                GatherBlock(Undefined, Obj(Put(Put(<<>>, k_body, Str(s_c)), k_extra, Str(s_ignored))))>>
  /\ calls[1].pc = "awaiting"
  /\ calls[1].i = 2
  /\ GetProp(dataBus[id_a], k_result) = Str(s_c)
  /\ calls[1].inputs =
       Obj(Put(Put(Put(Put(Put(<<>>, k_input, Obj1(k_body, Str(<<"1">>))),
                           id_a, Obj1(k_result, Str(s_c))),
                       slot_meta \o id_a, dataBus[slot_meta \o id_a]),
                   k_body, Str(s_c)), k_extra, Str(s_ignored)))

(***************************************************************************)
(* C20: for every target record and every valid dotted/indexed path, after *)
(* setPath(target, path, v) the call getPath(target, path) returns v.      *)
(***************************************************************************)
C20_SetThenGet ==
  (pathCall # NoPathCall /\ pathCall.path # <<>>) =>
    /\ pathCall.pc # "threw"
    /\ pathCall.pc = "got" => pathCall.got = pathCall.value

(***************************************************************************)
(* C30: if one output carries both a truthy _terminate and a _loopTo, the  *)
(* run stops after that unit: no backward jump is taken and no loop        *)
(* counter is incremented.                                                 *)
(***************************************************************************)
\* The awaited output of call c carries a truthy _terminate and a _loopTo.
BothSignals(c) ==
  /\ Resumed(c) /\ PendingSuccess(c)
  /\ Truthy(calls[c].pending.result)
  /\ Truthy(GetProp(calls[c].pending.result, k_terminate))
  /\ GetProp(calls[c].pending.result, k_loopTo) # Undefined

\* The loop counters of a Context.
LoopCounters(ctx) ==
  [key \in {k \in DOMAIN ctx : Len(k) >= Len(key_loopCount)
                               /\ SubSeq(k, 1, Len(key_loopCount)) = key_loopCount} |-> ctx[key]]

C30_TerminateBeforeLoop ==
  [][\A c \in Calls :
       BothSignals(c) =>
         /\ calls'[c].pc = "done"
         /\ calls'[c].i = calls[c].i
         /\ ExecIndices(calls'[c].trace) = ExecIndices(calls[c].trace)
         /\ LoopCounters(context') = LoopCounters(context)]_vars

\* Unit 'u' signals _terminate 1 and _loopTo 'a' with _maxLoops 2 after unit
\* 'a' ran once: the jump would have been accepted.
C30_Witness ==
  /\ blocks = <<BlockA, BlockT1>>
  /\ calls[1].pc = "done"
  /\ calls[1].i = 1
  /\ ExecIndices(calls[1].trace) = <<0, 1>>
  /\ LoopCounters(context) = <<>>
  /\ GetProp(SlotsGet(dataBus, id_u), k_loopTo) = Str(id_a)

(***************************************************************************)
(* C26: at every point during and after a single execute() call, the       *)
(* summary satisfies executed = succeeded + failed, the per-unit result    *)
(* list has exactly `executed` entries in execution order, and hasErrors   *)
(* is true exactly when failed > 0.                                        *)
(***************************************************************************)
\* The units call c has executed and got the outcome of, in order: every
\* executed cursor position but the one still awaited.
Settled(c) ==
  LET execs == ExecIndices(calls[c].trace)
  IN IF calls[c].pc = "awaiting" THEN SubSeq(execs, 1, Len(execs) - 1) ELSE execs

C26_SummaryConsistent ==
  (calls[1].pc # "idle") =>
    LET s == executionSummary
    IN /\ s.executed = s.succeeded + s.failed
       /\ Len(s.blockResults) = s.executed
       /\ Len(Settled(1)) = s.executed
       /\ \A k \in 1..Len(s.blockResults) : s.blockResults[k].id = blocks[Settled(1)[k] + 1].id
       /\ Cardinality({k \in 1..Len(s.blockResults) : s.blockResults[k].success}) = s.succeeded
       /\ s.hasErrors <=> s.failed > 0
       /\ s.totalBlocks = Len(blocks)

\* 'a' and 'l' ran three times each through the loop, then 'e' threw.
C26_Witness ==
  /\ blocks = <<BlockA, BlockL, BlockE>>
  /\ calls[1].pc = "done"
  /\ executionSummary.executed = 7
  /\ executionSummary.succeeded = 6
  /\ executionSummary.failed = 1
  /\ executionSummary.hasErrors
  /\ Last(executionSummary.blockResults).id = id_e

(***************************************************************************)
(* C28: when a unit throws, the Slot Store differs from its state before   *)
(* that unit ran only at _error and _meta.<unit id>: the throwing unit's   *)
(* output slot and every other slot are unchanged, and the Engine changes  *)
(* no Context key.                                                         *)
(***************************************************************************)
\* The slots in which two states of the Slot Store differ.
Differing(before, after) ==
  {slot \in (DOMAIN before) \cup (DOMAIN after) :
     ~(slot \in DOMAIN before /\ slot \in DOMAIN after /\ before[slot] = after[slot])}

C28_ThrowFrame ==
  [][\A c \in Calls :
       (Resumed(c) /\ PendingFault(c)) =>
         LET U == blocks[calls[c].i + 1]
         IN /\ Differing(dataBus, dataBus') \subseteq {slot_error, slot_meta \o U.id}
            /\ context' = context]_vars

\* Unit 'a' parsed '1' on its first pass and stored { parsed: 1 } under 's';
\* 'w' replaced slot `input` by { other: 'lit' }, so the second pass of 'a'
\* threw in validation, and { parsed: 1 } is still under 's'.
C28_Witness ==
  /\ blocks = <<ParserA(Str(slot_s)), Rewriter(Obj1(k_other, Str(s_lit))), BlockL>>
  /\ calls[1].pc = "done"
  /\ ExecIndices(calls[1].trace) = <<0, 1, 2, 0>>
  /\ SlotsGet(dataBus, slot_s) = Obj1(k_parsed, Num(1))
  /\ GetProp(SlotsGet(dataBus, slot_meta \o id_a), k_success) = Bool(FALSE)
  /\ DataBus_has(dataBus, slot_error)
  /\ LoopCounters(context) = Put(<<>>, key_loopCount \o id_a, Num(1))

(***************************************************************************)
(* C25: when a unit is executed again through loop-back, every pass that   *)
(* returns an output overwrites _meta.<id>, and overwrites the unit's      *)
(* default slot or its single named slot with that output.  Under a        *)
(* field-to-slot mapping the pass overwrites the slot of every field that  *)
(* is defined in its output and leaves the slot of every other field as an *)
(* earlier pass wrote it.  A pass that throws overwrites _meta.<id> only.  *)
(***************************************************************************)
\* Call c resumes after a pass of a unit it has executed before.
Repass(c) ==
  /\ Resumed(c)
  /\ LET ex == ExecIndices(calls[c].trace)
     IN Occurrences(ex, calls[c].i, Len(ex)) >= 2

\* _meta.<id> as a pass with this outcome writes it.
MetaOf(success, error) ==
  IF success THEN Obj(Put(<<>>, k_success, Bool(TRUE)))
  ELSE Obj(Put(Put(<<>>, k_success, Bool(FALSE)), k_error, error))

\* The slots hold, for the unit, exactly this output.
VisibleAs(slots, block, output) ==
  LET out == GetProp(block.config, k_output)
  IN CASE out.t = "undefined" -> SlotsGet(slots, block.id) = output
       [] out.t = "string" -> SlotsGet(slots, out.s) = output
       [] out.t = "object" ->
            \A key \in DOMAIN out.o : SlotsGet(slots, ToStr(out.o[key])) = GetProp(output, key)
       [] OTHER -> TRUE

\* The claim as stated: the last pass's output is what is visible.
C25_LastPassVisible ==
  [][\A c \in Calls :
       (Repass(c) /\ ~PendingFault(c)) =>
         LET block == blocks[calls[c].i + 1]
             output == calls[c].pending.result
         IN /\ VisibleAs(dataBus', block, output)
            /\ SlotsGet(dataBus', slot_meta \o block.id)
                 = MetaOf(PendingSuccess(c), GetProp(output, k_error))]_vars

C25_LastPassStored ==
  [][\A c \in Calls :
       Repass(c) =>
         LET block == blocks[calls[c].i + 1]
             output == calls[c].pending.result
             out == GetProp(block.config, k_output)
         IN IF PendingFault(c)
            THEN /\ SlotsGet(dataBus', slot_meta \o block.id).o[k_success] = Bool(FALSE)
                 /\ k_error \in DOMAIN SlotsGet(dataBus', slot_meta \o block.id).o
                 /\ \A slot \in DOMAIN dataBus :
                      slot \notin {slot_error, slot_meta \o block.id}
                        => slot \in DOMAIN dataBus' /\ dataBus'[slot] = dataBus[slot]
            ELSE /\ SlotsGet(dataBus', slot_meta \o block.id)
                      = MetaOf(PendingSuccess(c), GetProp(output, k_error))
                 /\ ~HasMapping(block) => VisibleAs(dataBus', block, output)
                 /\ HasMapping(block) =>
                      \A key \in DOMAIN out.o :
                        SlotsGet(dataBus', SlotNamed(block, key))
                          = IF key \in MappedFields(block, output) THEN GetProp(output, key)
                            ELSE SlotsGet(dataBus, SlotNamed(block, key))]_vars

\* 'a' maps parsed to 'v' and raw to 'r'.  Its first pass parsed '1'; its
\* second pass, on the rewritten body 'x', returned a soft error with raw
\* 'x' and no parsed field: 'r' holds the second pass's raw, 'v' still the
\* first pass's parsed value.
C25_Witness ==
  /\ blocks = <<ParserA(Obj(Put(Put(<<>>, k_parsed, Str(slot_v)), k_raw, Str(slot_r)))),
                Rewriter(Obj1(k_body, Str(<<"x">>))), BlockL>>
  /\ calls[1].pc = "done"
  /\ ExecIndices(calls[1].trace) = <<0, 1, 2, 0>>
  /\ SlotsGet(dataBus, slot_v) = Num(1)
  /\ SlotsGet(dataBus, slot_r) = Str(<<"x">>)
  /\ GetProp(SlotsGet(dataBus, slot_meta \o id_a), k_success) = Bool(FALSE)

(***************************************************************************)
(* C24: no step of the Engine removes a `_loopCount:*` key or lowers its   *)
(* value: within an execute() call every per-target loop counter is        *)
(* non-decreasing, whether a jump is accepted or refused, a unit fails or  *)
(* the run is terminated, and whichever call on the pipeline takes the     *)
(* step.                                                                   *)
(***************************************************************************)
C24_CountersMonotone ==
  [][\A key \in DOMAIN LoopCounters(context) :
       /\ key \in DOMAIN context'
       /\ context'[key].t = "number"
       /\ context'[key].n >= context[key].n]_vars

\* `_loopCount:a` reached its limit 2 and `_loopCount:1` is 1; unit 'l' is
\* being executed once more, and its jump will be refused.
C24_Witness ==
  /\ blocks = <<BlockA, BlockL, BlockN>>
  /\ calls[1].pc = "awaiting"
  /\ calls[1].i = 1
  /\ ExecIndices(calls[1].trace) = <<0, 1, 0, 1, 0, 1, 2, 1>>
  /\ calls[2].pc = "idle"
  /\ LoopCounters(context) = Put(Put(<<>>, key_loopCount \o id_a, Num(2)), key_loopCount \o <<"1">>, Num(1))

(***************************************************************************)
(* C27: in every result returned by execute(), results of a second or      *)
(* later call on the same pipeline included, the error field is present    *)
(* exactly when success is false.                                          *)
(***************************************************************************)
C27_ErrorIffFailure ==
  \A c \in Calls :
    calls[c].pc = "done" =>
      (k_error \in DOMAIN ResultOf(c).o <=> SuccessOf(c) = Bool(FALSE))

(***************************************************************************)
(* C23: whenever the loop body of execute() is entered, the cursor is the  *)
(* index of an existing unit (0 <= i < length), for every sequence of      *)
(* flow-control signals, numeric _loopTo values included.                  *)
(***************************************************************************)
C23_CursorIsIndex ==
  \A c \in Calls :
    \A k \in 1..Len(calls[c].trace) :
      calls[c].trace[k].ev \in {"exec", "nounit"} =>
        /\ calls[c].trace[k].ev = "exec"
        /\ calls[c].trace[k].index \in 0..(Len(blocks) - 1)

(***************************************************************************)
(* C29: execute() never rejects: an exception raised while gathering       *)
(* inputs, validating them, running process or storing the output becomes  *)
(* a failed-unit record and a returned result with success false.          *)
(***************************************************************************)
C29_NeverRejects ==
  \A c \in Calls :
    /\ calls[c].pc # "rejected"
    /\ (calls[c].pc = "done" /\ \E k \in 1..Len(calls[c].trace) : calls[c].trace[k].ev = "throw") =>
         /\ SuccessOf(c) = Bool(FALSE)
         /\ \E k \in 1..Len(executionSummary.blockResults) : ~executionSummary.blockResults[k].success

(***************************************************************************)
(* C21: when every process terminates, every signalled _maxLoops is at     *)
(* most a constant and nobody writes a `_loopCount:*` key, every execute() *)
(* call that was started completes and returns a result after a bounded    *)
(* number of unit executions: no call executes more units than the bound,  *)
(* a call that has not returned has its continuation queued, every         *)
(* continuation either executes one more unit or ends the call, and a call *)
(* ends only by returning a result.                                        *)
(***************************************************************************)
\* The largest _maxLoops that a unit of the pipeline signals (0 when none
\* signals a loop).
LargestMaxLoops ==
  LET given == {MaxLoopsOf(MaxLoopsGiven(blocks[k])) :
                  k \in {j \in 1..Len(blocks) : SignalsLoop(blocks[j])}}
  IN IF given = {} THEN 0 ELSE CHOOSE n \in given : \A other \in given : other <= n

\* Each of at most Len(blocks) counters admits LargestMaxLoops jumps, and at
\* most Len(blocks) units are executed before the first jump and after each.
ExecutionsBound == Len(blocks) * (1 + LargestMaxLoops * Len(blocks))

C21_BoundedThenReturns ==
  [][\A c \in Calls :
       /\ Len(ExecIndices(calls'[c].trace)) <= ExecutionsBound
       /\ calls'[c].pc \in {"idle", "awaiting", "done"}
       /\ calls'[c].pc = "awaiting" => \E k \in 1..Len(queue') : queue'[k] = c
       /\ Resumed(c) =>
            \/ calls'[c].pc = "done"
            \/ Len(ExecIndices(calls'[c].trace)) = Len(ExecIndices(calls[c].trace)) + 1]_vars

(***************************************************************************)
(* C22: after an accepted backward jump from cursor i to the index t < i   *)
(* of a unit, the next unit executed is the one at index t; after every    *)
(* other successful unit that does not terminate the run it is the one at  *)
(* i + 1.  So the units t, t+1, t+2, ... follow in list order, none is     *)
(* skipped and none is executed out of order.                              *)
(***************************************************************************)
\* handleLoop will accept the jump that the awaited unit of call c signals.
Accepted(c) ==
  LET output == calls[c].pending.result
  IN /\ Truthy(output)
     /\ GetProp(output, k_loopTo) # Undefined
     /\ TargetOf(GetProp(output, k_loopTo)) \in 0..(calls[c].i - 1)
     /\ CounterOf(context, GetProp(output, k_loopTo)) < MaxLoopsOf(GetProp(output, k_maxLoops))

C22_JumpThenListOrder ==
  [][\A c \in Calls :
       LET output == calls[c].pending.result
           next == IF Accepted(c) THEN TargetOf(GetProp(output, k_loopTo)) ELSE calls[c].i + 1
       IN (/\ Resumed(c) /\ PendingSuccess(c)
           /\ ~Truthy(GetProp(output, k_terminate))
           /\ Accepted(c) => IsWhole(GetProp(output, k_loopTo))) =>
            /\ calls'[c].i = next
            /\ ExecIndices(calls'[c].trace) =
                 IF next < Len(blocks) THEN Append(ExecIndices(calls[c].trace), next)
                 ELSE ExecIndices(calls[c].trace)]_vars

\* 'l' at index 2 jumped twice to 'a' at index 0; after each jump 'a', 'b'
\* and 'l' were executed in this order.
C22_Witness ==
  /\ blocks = <<BlockA, BlockB, BlockL>>
  /\ calls[1].pc = "done"
  /\ calls[1].i = 3
  /\ ExecIndices(calls[1].trace) = <<0, 1, 2, 0, 1, 2, 0, 1, 2>>
  /\ CounterOf(context, Str(id_a)) = 2

(***************************************************************************)
(* C31: for the placeholder ${env.X} the prefix is stripped and X is       *)
(* looked up in the Context; when the Context has no key X, the result is  *)
(* what the Slot Store lookup gives (of the path as written or of the      *)
(* remainder), not undefined.                                              *)
(***************************************************************************)
C31_EnvMissFallsThrough ==
  [][(/\ resolved = NotResolved /\ resolved' # NotResolved
      /\ template = Str(Placeholder(key_env_X))) =>
       IF key_X \in DOMAIN context THEN resolved' = context[key_X]
       ELSE \/ resolved' = DataBus_get(dataBus, key_env_X)
            \/ resolved' = DataBus_get(dataBus, key_X)]_vars

(***************************************************************************)
(* C32: resolveValue applied to a string without `${` returns the value of *)
(* the slot with that exact name when there is such a slot, and the string *)
(* itself otherwise.                                                       *)
(***************************************************************************)
C32_PlainStringIsSlotName ==
  [][(resolved = NotResolved /\ resolved' # NotResolved) =>
       resolved' = IF template.s \in DOMAIN dataBus THEN dataBus[template.s] ELSE template]_vars

(***************************************************************************)
(* C37: for a condition with a path and one of the twenty operators,       *)
(* evaluateCondition throws "Operator '<operator>' requires a value"       *)
(* exactly when the operator is not one of the eight no-value operators    *)
(* and value is undefined.  With 0, false, '' or any other value, and for  *)
(* a no-value operator without value, it throws nothing and returns a      *)
(* boolean.  Seen where Loop.process evaluates its condition.              *)
(***************************************************************************)
\* The condition of the Loop unit that call c awaits.
ConditionOf(c) == GetProp(blocks[calls[c].i + 1].config, k_condition)

\* Call c resumes after a Loop unit whose condition has a path and a known
\* operator.
EvaluatedCondition(c) ==
  /\ Resumed(c)
  /\ blocks[calls[c].i + 1].kind = "Loop"
  /\ ConditionOf(c) # Undefined
  /\ GetProp(ConditionOf(c), k_path) # Undefined
  /\ GetProp(ConditionOf(c), k_operator) # Undefined
  /\ GetProp(ConditionOf(c), k_operator).s \in Operators

C37_ValueRequired ==
  [][\A c \in Calls :
       EvaluatedCondition(c) =>
         LET operator == GetProp(ConditionOf(c), k_operator).s
             value == GetProp(ConditionOf(c), k_value)
         IN IF operator \notin noValueOperators /\ value = Undefined
            THEN calls[c].pending.error = Err(s_OperatorQ \o operator \o s_requiresValue)
            ELSE /\ ~PendingFault(c)
                 /\ GetProp(calls[c].pending.result, k_shouldLoop) \in {Bool(TRUE), Bool(FALSE)}]_vars

\* count is 0 and the condition is { path: 'count', operator: 'equals',
\* value: 0 }: the operand 0 was accepted, the condition held and the Loop
\* unit jumped back once.
C37_Witness ==
  /\ blocks = <<CountStep(Num(0)), LoopIf(Num(1), Condition(Str(k_count), Str(op_equals), Num(0)))>>
  /\ calls[1].pc = "done"
  /\ ExecIndices(calls[1].trace) = <<0, 1, 0, 1>>
  /\ SuccessOf(1) = Bool(TRUE)
  /\ CounterOf(context, Str(id_a)) = 1
  /\ GetProp(SlotsGet(dataBus, id_l), k_shouldLoop) = Bool(TRUE)

(***************************************************************************)
(* C33: a Loop block whose condition evaluates false on its inputs returns *)
(* its inputs plus _shouldLoop: false, without _loopTo and _maxLoops, and  *)
(* the Engine advances to the next unit and leaves the Context as it is.   *)
(* When the condition is true or absent it returns its inputs plus         *)
(* _loopTo: target, _maxLoops: maxIterations (10 when not given) and       *)
(* _shouldLoop: true.                                                      *)
(***************************************************************************)
C33_LoopSignals ==
  [][\A c \in Calls :
       (Resumed(c) /\ blocks[calls[c].i + 1].kind = "Loop" /\ ~PendingFault(c)) =>
         LET config == blocks[calls[c].i + 1].config
             inputs == calls[c].inputs
             output == calls[c].pending.result
             maxLoops == IF GetProp(config, k_maxIterations) = Undefined THEN Num(10)
                         ELSE GetProp(config, k_maxIterations)
         IN IF ConditionOf(c) = Undefined \/ evaluateCondition(inputs, ConditionOf(c)).value = Bool(TRUE)
            THEN output = Obj(Put(Put(Put(Spread(inputs), k_loopTo, GetProp(config, k_target)),
                                      k_maxLoops, maxLoops), k_shouldLoop, Bool(TRUE)))
            ELSE /\ output = Obj(Put(Spread(inputs), k_shouldLoop, Bool(FALSE)))
                 /\ k_loopTo \notin DOMAIN output.o
                 /\ k_maxLoops \notin DOMAIN output.o
                 /\ context' = context
                 /\ calls'[c].i = calls[c].i + 1]_vars

(***************************************************************************)
(* C35: if the setup pipeline of a suite does not succeed, runSuite        *)
(* executes no test pipeline and no teardown pipeline and returns a suite  *)
(* result with success false and setupError set.                           *)
(***************************************************************************)
\* runSuite leaves the setup part of a suite that has setup steps.
SetupEnds ==
  /\ suiteRun.phase = "setup"
  /\ suiteRun'.phase # "setup"
  /\ HasSteps(GetProp(suiteRun.suite, k_setup))

\* The setup pipeline was built and its execute() returned a result.
SetupReturned == suiteRun.running = "setup" /\ calls[1].pc = "done"

SetupSucceeded == SetupReturned /\ GetProp(calls[1].result, k_success) = Bool(TRUE)

\* runSuite has returned, and it ran no test and no teardown.
ReturnsAtOnce ==
  /\ suiteRun'.phase = "done"
  /\ suiteRun'.tests = <<>>
  /\ suiteRun'.teardownResult = Null
  /\ suiteRun'.success = FALSE

\* The statement as given: setupError is set whenever the setup did not succeed.
C35_SetupFailureSetsSetupError ==
  [][/\ suiteRun.phase # "done"
     /\ (SetupEnds /\ ~SetupSucceeded) => (ReturnsAtOnce /\ suiteRun'.setupError # Undefined)]_vars

\* After runSuite returned nothing is built or executed.  A setup that does
\* not succeed makes runSuite return at once with success false; setupError
\* is set exactly when the setup pipeline returned a result, and is that
\* result's error; otherwise (building or executing it threw) the result is
\* the error result, with error and without setupError.
C35_SetupFailureStops ==
  [][/\ suiteRun.phase # "done"
     /\ (SetupEnds /\ ~SetupSucceeded) =>
          /\ ReturnsAtOnce
          /\ IF SetupReturned
             THEN /\ suiteRun'.setupError = GetProp(calls[1].result, k_error)
                  /\ suiteRun'.setupError # Undefined
                  /\ suiteRun'.error = Undefined
             ELSE /\ suiteRun'.setupError = Undefined
                  /\ suiteRun'.error # Undefined
     /\ (SetupEnds /\ SetupSucceeded) => suiteRun'.phase = "tests"]_vars

\* The setup [ p (JsonParser on 'x') ] failed in a suite with two tests and a
\* teardown: only the setup's unit was executed.
C35_Witness ==
  /\ suiteRun # NoSuite
  /\ suiteRun.phase = "done"
  /\ GetProp(suiteRun.suite, k_setup) = Arr(<<StepBroken>>)
  /\ Len(GetProp(suiteRun.suite, k_tests).a) = 2
  /\ HasSteps(GetProp(suiteRun.suite, k_teardown))
  /\ suiteRun.setupError # Undefined
  /\ suiteRun.success = FALSE
  /\ suiteRun.tests = <<>>
  /\ suiteRun.teardownResult = Null
  /\ ExecIndices(calls[1].trace) = <<0>>
  /\ blocks[1].id = id_p

(***************************************************************************)
(* C34: when a suite defines a teardown, runSuite executes the teardown    *)
(* pipeline after all tests have run, also when tests failed or threw, and *)
(* the teardown's outcome does not change the suite's success, which is    *)
(* true exactly when every test succeeded.                                 *)
(***************************************************************************)
\* runSuite went past the setup: the suite has none, or it succeeded.
PastSetup == suiteRun.setupError = Undefined /\ suiteRun.error = Undefined

\* Every test of the suite has its result.
AllTestsRan == Len(suiteRun.tests) = Len(GetProp(suiteRun.suite, k_tests).a)

\* The pipeline of the state is the teardown pipeline and its execute()
\* call has ended.
TeardownExecuted ==
  /\ blocks = fromJSON(Obj1(k_pipeline, GetProp(suiteRun.suite, k_teardown))).blocks
  /\ calls[1].pc \in {"done", "rejected"}
  /\ suiteRun.teardownResult # Null

C34_TeardownAlwaysRuns ==
  suiteRun # NoSuite =>
    /\ suiteRun.running = "teardown" => AllTestsRan
    /\ (suiteRun.phase = "done" /\ PastSetup) =>
         /\ AllTestsRan
         /\ suiteRun.success <=> \A n \in 1..Len(suiteRun.tests) : suiteRun.tests[n].success
         /\ HasSteps(GetProp(suiteRun.suite, k_teardown)) =>
              IF BuildError(GetProp(suiteRun.suite, k_teardown)) = Undefined
              THEN TeardownExecuted
              ELSE GetProp(suiteRun.teardownResult, k_success) = Bool(FALSE)

\* Building the first test threw and the second test's execute() rejected;
\* the teardown [ b ] was executed after them and succeeded, and the suite
\* is reported failed.
C34_Witness ==
  /\ suiteRun # NoSuite
  /\ suiteRun.phase = "done"
  /\ GetProp(suiteRun.suite, k_tests) = Arr(<<TestUnknown, TestRejects>>)
  /\ GetProp(suiteRun.suite, k_teardown) = Arr(<<StepOther>>)
  /\ Len(suiteRun.tests) = 2
  /\ suiteRun.tests[1].error # Undefined
  /\ suiteRun.tests[2].error # Undefined
  /\ suiteRun.teardownResult = Obj1(k_success, Bool(TRUE))
  /\ ExecIndices(calls[1].trace) = <<0>>
  /\ suiteRun.success = FALSE

(***************************************************************************)
(* C36: every test of a suite, and the teardown, runs on a newly built     *)
(* Pipeline: no slot, loop counter or Context key written while running    *)
(* one test is visible to a later test or to the teardown; only the suite  *)
(* input, the setup data and the test's own input reach a test, through    *)
(* its input slot.                                                         *)
(***************************************************************************)
\* The test whose pipeline is the one of the state.
CurrentTest == GetProp(suiteRun.suite, k_tests).a[Len(suiteRun.tests) + 1]

\* The suite input, then the setup data, then the test's own input.
ReachesTest ==
  LET own == IF suiteRun.running = "test" THEN Spread(GetProp(CurrentTest, k_input)) ELSE <<>>
      keys == DOMAIN Spread(GetProp(suiteRun.suite, k_input))
                \cup DOMAIN Spread(suiteRun.setupData) \cup DOMAIN own
  IN Obj([key \in keys |->
            IF key \in DOMAIN own THEN own[key]
            ELSE IF key \in DOMAIN Spread(suiteRun.setupData) THEN Spread(suiteRun.setupData)[key]
            ELSE Spread(GetProp(suiteRun.suite, k_input))[key]])

\* The Context of a pipeline built for this suite: the key _test only.
BuiltContext == fromJSON(suiteRun.suite).context

\* execute(ReachesTest) on a pipeline of these blocks that nothing ran on.
OnNewPipeline ==
  RunToEnd(blocks, ExecuteStart([dataBus |-> <<>>, context |-> BuiltContext,
                                 executionSummary |-> Null],
                                blocks, ReachesTest, EmptyObj))

====
